---- MODULE Spec2Model ----
(***************************************************************************)
(* Application-command registry, diff engine, synchronizer and scheduler   *)
(* of disnake/ext/commands/interaction_bot_base.py (InteractionBotBase).   *)
(*                                                                         *)
(* Values.  None is the string "None".  Guild ids are strings.  A command  *)
(* object lives in the heap `cmds`; a reference to it is its index, and    *)
(* the slot of an object no key refers to any more is free again.  An      *)
(* Optional[command] is a sequence: <<>> is None, <<r>> is the object r.   *)
(* A remote id is the tuple <<scope, name, type>>; <<>> is "no id".        *)
(***************************************************************************)
EXTENDS Integers, Sequences, FiniteSets, TLC

None == "None"
chat_input == "chat_input"
user == "user"
message == "message"
Types == {chat_input, user, message}
Names == {"a", "b"}
\* names the context-menu (user / message) registry calls are tried with
CtxNames == {"a"}
\* guild_ids and scopes they are tried with
CtxGuildIdChoices == {<<>>, <<"7">>}
CtxScopes == {None, "7"}
Guilds == {"7", "8"}
Scopes == {None} \cup Guilds

\* the name component itertools.chain[0] that get_app_command builds its key from
ChainAlias == "itertools.chain[0]"

\* the check functions a caller may pass
Funcs == {"p", "q"}

\* the six lists of __init__, by attribute name
CheckLists == {"_slash_command_checks", "_slash_command_check_once",
               "_user_command_checks", "_user_command_check_once",
               "_message_command_checks", "_message_command_check_once"}

\* bounds of the model
MaxCmds == 2
MaxDelayed == 2
\* delayed syncs scheduled while the synchronizer's diffs are under observation
MaxResync == 1
\* length of a global check list
MaxChecks == 2

\* guild_ids a command may be declared with (<<>> is guild_ids=None)
GuildIdChoices == {<<>>, <<"7">>, <<"8", "7">>}

VARIABLES
    command_sync,                \* self._command_sync (ApplicationCommandSyncFlags)
    test_guilds,                 \* self._test_guilds: [is_none, ids]
    all_app_commands,            \* self._all_app_commands, in insertion order
    cmds,                        \* heap of the command objects ever registered
    sync_queued,                 \* self._sync_queued
    global_application_commands, \* self._connection._global_application_commands
    guild_application_commands,  \* self._connection._guild_application_commands
    remote,                      \* the platform's commands per scope
    first_connect,               \* wait_until_first_connect() has been released
    ready,                       \* self.is_ready()
    is_closed,                   \* self._is_closed
    tasks,                       \* tasks[1] is app_command_preparation, the others
                                 \* the delayed_command_sync tasks, in creation order
    checks,                      \* the six global check lists, by attribute name
    watch,                       \* which bookkeeping is kept: registry | sync | order |
                                 \* scheduler | runtime | flags | checks | can_run |
                                 \* dispatch
    ret,                         \* outcome of the registry call made by this step
    obs,                         \* the diffs computed by this step
    hist                         \* bookkeeping about passes, for the properties

vars == <<command_sync, test_guilds, all_app_commands, cmds, sync_queued,
          global_application_commands, guild_application_commands, remote,
          first_connect, ready, is_closed, tasks, checks, watch, ret, obs, hist>>

syncVars == <<sync_queued, global_application_commands, guild_application_commands,
              remote, first_connect, ready, is_closed, tasks, checks, watch>>

\* the bookkeeping of passes is kept: "order" adds the fetches to that of "sync"
WatchSync == watch \in {"sync", "order"}

\* the configuration, fixed at construction, and the check lists, which only
\* add_app_command_check and remove_app_command_check change
config == <<command_sync, test_guilds, checks, watch>>

-----------------------------------------------------------------------------
(* Registry: AppCommandMetadata keys and the dict _all_app_commands.        *)

AppCommandMetadata(name, guild_id, type) ==
    [name |-> name, guild_id |-> guild_id, type |-> type]

Keys(reg) == {reg[i].meta : i \in 1..Len(reg)}

\* dict.get(meta): <<>> when absent
DictGet(reg, meta) ==
    IF \E i \in 1..Len(reg) : reg[i].meta = meta
    THEN <<reg[CHOOSE i \in 1..Len(reg) : reg[i].meta = meta].cmd>>
    ELSE <<>>

\* dict[meta] = cmd: replaces in place, or appends a new key
DictSet(reg, meta, cmd) ==
    IF meta \in Keys(reg)
    THEN [i \in 1..Len(reg) |->
             IF reg[i].meta = meta THEN [meta |-> meta, cmd |-> cmd] ELSE reg[i]]
    ELSE Append(reg, [meta |-> meta, cmd |-> cmd])

\* dict.pop(meta, None): the dict without the key
DictPop(reg, meta) == SelectSeq(reg, LAMBDA e : e.meta # meta)

\* disnake.utils.get(self._all_app_commands, name=, type=, guild_id=) is truthy
UtilsGetNeverFinds(reg, name, type, guild_id) == FALSE
UtilsGet(reg, name, type, guild_id) ==
    \E i \in 1..Len(reg) :
        /\ reg[i].meta.name = name
        /\ reg[i].meta.type = type
        /\ reg[i].meta.guild_id = guild_id

\* the guild_ids loop of add_*_command: insert key by key, stop at a collision
RECURSIVE AddLoop(_, _, _, _, _, _)
AddLoop(reg, ref, name, type, gids, i) ==
    IF i > Len(gids)
    THEN [reg |-> reg, exc |-> ""]
    ELSE IF UtilsGet(reg, name, type, gids[i])
         THEN [reg |-> reg, exc |-> "CommandRegistrationError"]
         ELSE AddLoop(DictSet(reg, AppCommandMetadata(name, gids[i], type), ref),
                      ref, name, type, gids, i + 1)

\* body of add_slash_command / add_user_command / add_message_command
AddResult(reg, ref, name, type, guild_ids) ==
    IF guild_ids # <<>>
    THEN AddLoop(reg, ref, name, type, guild_ids, 1)
    ELSE IF UtilsGet(reg, name, type, None)
         THEN [reg |-> reg, exc |-> "CommandRegistrationError"]
         ELSE [reg |-> DictSet(reg, AppCommandMetadata(name, None, type), ref),
               exc |-> ""]

\* a freshly declared command object (InvokableApplicationCommand and its body)
NewCommand(name, type, guild_ids, auto_sync) ==
    [free |-> FALSE, name |-> name, type |-> type, guild_ids |-> guild_ids,
     auto_sync |-> auto_sync, desc |-> 1, id |-> <<>>, always_synced |-> FALSE]

\* a heap slot whose object is gone
Free == [free |-> TRUE]

\* the reference a new object gets
AllocRef(heap) ==
    IF \E r \in 1..Len(heap) : heap[r].free
    THEN CHOOSE r \in 1..Len(heap) :
             heap[r].free /\ \A q \in 1..Len(heap) : heap[q].free => r <= q
    ELSE Len(heap) + 1

Store(heap, ref, c) ==
    IF ref <= Len(heap) THEN [heap EXCEPT ![ref] = c] ELSE Append(heap, c)

RECURSIVE TrimFree(_)
TrimFree(heap) ==
    IF heap # <<>> /\ heap[Len(heap)].free
    THEN TrimFree(SubSeq(heap, 1, Len(heap) - 1))
    ELSE heap

\* objects no registry key refers to are dropped from the heap
Collect(heap, reg) ==
    TrimFree([r \in 1..Len(heap) |-> IF r \in {reg[i].cmd : i \in 1..Len(reg)}
                                      THEN heap[r] ELSE Free])

Refs(reg) == {reg[i].cmd : i \in 1..Len(reg)}

NoRet == [op |-> "none"]

\* bookkeeping after a registry call that left the registry as reg2
RegistryTouched(reg2) ==
    [hist EXCEPT !.changed = @ \/ (WatchSync /\ reg2 # all_app_commands),
                 !.want = @ \cap Refs(reg2), !.cov = @ \cap Refs(reg2),
                 !.unread = IF watch = "runtime" /\ ready
                            THEN (@ \cup (Refs(reg2) \ Refs(all_app_commands)))
                                 \cap Refs(reg2)
                            ELSE @ \cap Refs(reg2),
                 !.asked = @ \cap Refs(reg2)]

\* the outcome r of a registry call, when registry calls are under observation
Outcome(r) == IF watch = "registry" THEN r ELSE NoRet

add_command(name, type, guild_ids, auto_sync) ==
    /\ AllocRef(cmds) <= MaxCmds
    /\ LET ref == AllocRef(cmds)
           r == AddResult(all_app_commands, ref, name, type, guild_ids)
       IN /\ all_app_commands' = r.reg
          /\ cmds' = IF r.reg # all_app_commands
                     THEN Store(cmds, ref, NewCommand(name, type, guild_ids, auto_sync))
                     ELSE cmds
          /\ ret' = Outcome([op |-> "add", name |-> name, type |-> type,
                              guild_ids |-> guild_ids, val |-> <<>>, exc |-> r.exc,
                              before |-> all_app_commands])
          /\ hist' = RegistryTouched(r.reg)
    /\ obs' = <<>>
    /\ UNCHANGED <<command_sync, test_guilds>>
    /\ UNCHANGED syncVars

add_slash_command(name, guild_ids, auto_sync) ==
    add_command(name, chat_input, guild_ids, auto_sync)

add_user_command(name, guild_ids, auto_sync) ==
    add_command(name, user, guild_ids, auto_sync)

add_message_command(name, guild_ids, auto_sync) ==
    add_command(name, message, guild_ids, auto_sync)

\* self._all_app_commands.pop(meta, None) of the three remove_* methods
PopAllKeysOfCmd(reg, meta) ==
    LET hit == DictGet(reg, meta)
    IN IF hit = <<>> THEN reg ELSE SelectSeq(reg, LAMBDA e : e.cmd # hit[1])
PopKey(reg, meta) == DictPop(reg, meta)

remove_command(name, type, guild_id) ==
    LET meta == AppCommandMetadata(name, guild_id, type)
        reg2 == PopKey(all_app_commands, meta)
    IN /\ ret' = Outcome([op |-> "remove", name |-> name, type |-> type,
                           guild_ids |-> <<guild_id>>,
                           val |-> DictGet(all_app_commands, meta), exc |-> "",
                           before |-> all_app_commands])
       /\ all_app_commands' = reg2
       /\ cmds' = Collect(cmds, reg2)
       /\ hist' = RegistryTouched(reg2)
       /\ obs' = <<>>
       /\ UNCHANGED <<command_sync, test_guilds>>
       /\ UNCHANGED syncVars

\* `if guild_id:` selects the same key as the else branch builds for None
remove_slash_command(name, guild_id) == remove_command(name, chat_input, guild_id)

remove_user_command(name, guild_id) == remove_command(name, user, guild_id)

remove_message_command(name, guild_id) == remove_command(name, message, guild_id)

\* get_app_command: the key is built from chain[0], where chain is itertools.chain
\* (line 10), not from the name; subscripting the class raises TypeError before
\* Python 3.9 and yields the alias itertools.chain[0] from 3.9 on
GetKey(name, type, guild_id) == AppCommandMetadata(ChainAlias, guild_id, type)

\* ret.registered: the command the registry holds under the requested key
get_command(name, type, guild_id) ==
    /\ \E build \in {"py38", "py39"} :
          ret' = [op |-> "get",
                  registered |-> DictGet(all_app_commands,
                                         AppCommandMetadata(name, guild_id, type)),
                  val |-> IF build = "py38" THEN <<>>
                          ELSE DictGet(all_app_commands, GetKey(name, type, guild_id)),
                  exc |-> IF build = "py38" THEN "TypeError" ELSE ""]
    /\ obs' = <<>>
    /\ UNCHANGED config
    /\ UNCHANGED <<all_app_commands, cmds, hist>>
    /\ UNCHANGED syncVars

get_app_command(name, type, guild_id) == get_command(name, type, guild_id)

\* single-word names only: chain = name.split() has one element
get_slash_command(name, guild_id) == get_command(name, chat_input, guild_id)

get_user_command(name, guild_id) == get_command(name, user, guild_id)

get_message_command(name, guild_id) == get_command(name, message, guild_id)

-----------------------------------------------------------------------------
(* Diff engine: _app_commands_diff and the structural comparison.           *)

\* (cmd.name, cmd.type)
KeyOf(c) == <<c.name, c.type>>

\* {(cmd.name, cmd.type): cmd for cmd in seq}.values(): a key keeps the position
\* of its first occurrence and the value of its last
DictByKey(seq) ==
    LET firsts == SelectSeq([i \in 1..Len(seq) |-> i],
                            LAMBDA i : \A j \in 1..(i - 1) : KeyOf(seq[j]) # KeyOf(seq[i]))
    IN [n \in 1..Len(firsts) |->
           seq[CHOOSE j \in 1..Len(seq) :
                  /\ KeyOf(seq[j]) = KeyOf(seq[firsts[n]])
                  /\ \A k \in (j + 1)..Len(seq) : KeyOf(seq[k]) # KeyOf(seq[j])]]

KeySet(seq) == {KeyOf(seq[i]) : i \in 1..Len(seq)}

\* old_cmds.get(name_and_type) for a key known to be present
Counterpart(old_cmds, key) ==
    old_cmds[CHOOSE i \in 1..Len(old_cmds) : KeyOf(old_cmds[i]) = key]

\* ApplicationCommand.need_sync(other): some externally visible field differs
need_sync(new_cmd, old_cmd) == new_cmd.desc # old_cmd.desc

\* lines 104-105: old_cmd is None
Unknown(old_cmds, c) == KeyOf(c) \notin KeySet(old_cmds)

\* lines 107-113: `new_cmd._always_synced` is asked before need_sync
Same(old_cmds, c) ==
    /\ ~Unknown(old_cmds, c)
    /\ (c.always_synced \/ ~need_sync(c, Counterpart(old_cmds, KeyOf(c))))

\* lines 108 and 113: what a kept command puts into no_changes
Kept(old_cmds, c) ==
    IF c.always_synced THEN Counterpart(old_cmds, KeyOf(c)) ELSE c

ClassifyIgnoresAlwaysSynced(new_cmds, old_cmds) ==
    [no_changes |-> SelectSeq(new_cmds, LAMBDA c : ~Unknown(old_cmds, c)
                        /\ ~need_sync(c, Counterpart(old_cmds, KeyOf(c)))),
     upsert |-> SelectSeq(new_cmds, LAMBDA c : Unknown(old_cmds, c)),
     edit |-> SelectSeq(new_cmds, LAMBDA c : ~Unknown(old_cmds, c)
                        /\ need_sync(c, Counterpart(old_cmds, KeyOf(c)))),
     delete |-> SelectSeq(old_cmds, LAMBDA c : KeyOf(c) \notin KeySet(new_cmds))]
ClassifyNeverDeletes(new_cmds, old_cmds) ==
    [no_changes |-> [i \in 1..Len(SelectSeq(new_cmds, LAMBDA c : Same(old_cmds, c))) |->
                        Kept(old_cmds, SelectSeq(new_cmds, LAMBDA c : Same(old_cmds, c))[i])],
     upsert |-> SelectSeq(new_cmds, LAMBDA c : Unknown(old_cmds, c)),
     edit |-> SelectSeq(new_cmds, LAMBDA c : ~Unknown(old_cmds, c) /\ ~Same(old_cmds, c)),
     delete |-> <<>>]
ClassifyDeletesMatched(new_cmds, old_cmds) ==
    [no_changes |-> [i \in 1..Len(SelectSeq(new_cmds, LAMBDA c : Same(old_cmds, c))) |->
                        Kept(old_cmds, SelectSeq(new_cmds, LAMBDA c : Same(old_cmds, c))[i])],
     upsert |-> SelectSeq(new_cmds, LAMBDA c : Unknown(old_cmds, c)),
     edit |-> SelectSeq(new_cmds, LAMBDA c : ~Unknown(old_cmds, c) /\ ~Same(old_cmds, c)),
     delete |-> old_cmds]
\* lines 103-117 on the two dicts of lines 93-94
Classify(new_cmds, old_cmds) ==
    [no_changes |-> [i \in 1..Len(SelectSeq(new_cmds, LAMBDA c : Same(old_cmds, c))) |->
                        Kept(old_cmds, SelectSeq(new_cmds, LAMBDA c : Same(old_cmds, c))[i])],
     upsert |-> SelectSeq(new_cmds, LAMBDA c : Unknown(old_cmds, c)),
     edit |-> SelectSeq(new_cmds, LAMBDA c : ~Unknown(old_cmds, c) /\ ~Same(old_cmds, c)),
     delete |-> SelectSeq(old_cmds, LAMBDA c : KeyOf(c) \notin KeySet(new_cmds))]

\* _app_commands_diff(new_commands, old_commands)
Diff(new_commands, old_commands) ==
    Classify(DictByKey(new_commands), DictByKey(old_commands))

-----------------------------------------------------------------------------
(* Synchronizer: local lists, policy hook, push decision, id back-fill.     *)

\* cmd.body as the diff reads it
Body(heap, ref) ==
    [ref |-> ref, name |-> heap[ref].name, type |-> heap[ref].type,
     desc |-> heap[ref].desc, always_synced |-> heap[ref].always_synced]

\* lines 787-788: every registered command with auto_sync off gets _always_synced
MarkAlwaysSynced(reg, heap) ==
    [r \in DOMAIN heap |->
        IF r \in Refs(reg) /\ ~heap[r].auto_sync
        THEN [heap[r] EXCEPT !.always_synced = TRUE]
        ELSE heap[r]]

GuildListAddInFront(guilds, g, body) ==
    IF \E k \in 1..Len(guilds) : guilds[k].guild_id = g
    THEN [k \in 1..Len(guilds) |->
             IF guilds[k].guild_id = g
             THEN [guilds[k] EXCEPT !.cmds = Append(@, body)] ELSE guilds[k]]
    ELSE <<[guild_id |-> g, cmds |-> <<body>>]>> \o guilds
\* guilds[guild_id] = [body] or guilds[guild_id].append(body)
GuildListAdd(guilds, g, body) ==
    IF \E k \in 1..Len(guilds) : guilds[k].guild_id = g
    THEN [k \in 1..Len(guilds) |->
             IF guilds[k].guild_id = g
             THEN [guild_id |-> g, cmds |-> Append(guilds[k].cmds, body)]
             ELSE guilds[k]]
    ELSE Append(guilds, [guild_id |-> g, cmds |-> <<body>>])

RECURSIVE AddToGuilds(_, _, _, _)
AddToGuilds(guilds, gids, i, body) ==
    IF i > Len(gids)
    THEN guilds
    ELSE AddToGuilds(GuildListAdd(guilds, gids[i], body), gids, i + 1, body)

\* the loop without the `continue` of line 795 and with the global list fed
\* before the test of line 793
RECURSIVE OrderedLoopAllGlobal(_, _, _, _, _)
OrderedLoopAllGlobal(reg, heap, tg, i, acc) ==
    IF i > Len(reg)
    THEN acc
    ELSE LET c == heap[reg[i].cmd]
             body == Body(heap, reg[i].cmd)
             acc1 == [acc EXCEPT !.global_cmds = Append(@, body)]
         IN IF c.guild_ids = <<>> /\ tg.is_none
            THEN OrderedLoopAllGlobal(reg, heap, tg, i + 1, acc1)
            ELSE OrderedLoopAllGlobal(reg, heap, tg, i + 1,
                    [acc1 EXCEPT !.guilds =
                        AddToGuilds(@, IF c.guild_ids # <<>> THEN c.guild_ids ELSE tg.ids,
                                    1, body)])

\* the loop of _ordered_unsynced_commands over application_commands_iterator(),
\* one round per registry key, on the heap as marked by MarkAlwaysSynced
RECURSIVE OrderedLoop(_, _, _, _, _)
OrderedLoop(reg, heap, tg, i, acc) ==
    IF i > Len(reg)
    THEN acc
    ELSE LET c == heap[reg[i].cmd]
             body == Body(heap, reg[i].cmd)
         IN IF c.guild_ids = <<>> /\ tg.is_none
            THEN OrderedLoop(reg, heap, tg, i + 1,
                             [acc EXCEPT !.global_cmds = Append(@, body)])
            ELSE OrderedLoop(reg, heap, tg, i + 1,
                    [acc EXCEPT !.guilds =
                        AddToGuilds(@, IF c.guild_ids # <<>> THEN c.guild_ids ELSE tg.ids,
                                    1, body)])

\* _ordered_unsynced_commands(test_guilds) -> (global_cmds, guilds)
ordered_unsynced_commands(reg, heap, tg) ==
    OrderedLoop(reg, MarkAlwaysSynced(reg, heap), tg, 1,
                [global_cmds |-> <<>>, guilds |-> <<>>])

MoveKeepsDelete(diff) ==
    [diff EXCEPT !.no_changes = diff.no_changes \o diff.delete]
\* lines 861-862 and 889-890
MoveDeleteToNoChanges(diff) ==
    [diff EXCEPT !.no_changes = diff.no_changes \o diff.delete, !.delete = <<>>]

\* lines 859-862
PolicyHookGlobal(diff, flags) ==
    IF ~flags.allow_command_deletion THEN MoveDeleteToNoChanges(diff) ELSE diff

\* lines 887-890 (the condition is not negated there)
PolicyHookGuild(diff, flags) ==
    IF flags.allow_command_deletion THEN MoveDeleteToNoChanges(diff) ELSE diff

UpdateRequiredCountsNoChanges(diff) ==
    diff.upsert # <<>> \/ diff.edit # <<>> \/ diff.delete # <<>> \/ diff.no_changes # <<>>
\* lines 863 and 891
UpdateRequired(diff) == diff.upsert # <<>> \/ diff.edit # <<>> \/ diff.delete # <<>>

\* what a command puts on the wire (to_dict)
Payload(c) == [name |-> c.name, type |-> c.type, desc |-> c.desc]

ToSendWithoutNoChanges(diff) ==
    LET l == diff.edit \o diff.upsert
    IN [i \in 1..Len(l) |-> Payload(l[i])]
\* lines 876 and 904
ToSend(diff) ==
    LET l == diff.no_changes \o diff.edit \o diff.upsert
    IN [i \in 1..Len(l) |-> Payload(l[i])]

\* one scope of _sync_application_commands up to the push decision
ScopeDiff(scope, new, old, flags) ==
    LET raw == Diff(new, old)
        d == IF scope = None THEN PolicyHookGlobal(raw, flags)
             ELSE PolicyHookGuild(raw, flags)
    IN [scope |-> scope, new |-> new, old |-> old, raw |-> raw, diff |-> d,
        update_required |-> UpdateRequired(d), to_send |-> ToSend(d)]

\* self._connection._guild_application_commands.get(guild_id, {}).values()
GuildCacheGet(guc, g) ==
    IF \E k \in 1..Len(guc) : guc[k].guild_id = g
    THEN guc[CHOOSE k \in 1..Len(guc) : guc[k].guild_id = g].cmds
    ELSE <<>>

\* self._connection._guild_application_commands[guild_id] = {...}
GuildCacheSet(guc, g, commands) ==
    IF \E k \in 1..Len(guc) : guc[k].guild_id = g
    THEN [k \in 1..Len(guc) |->
             IF guc[k].guild_id = g THEN [guild_id |-> g, cmds |-> commands]
             ELSE guc[k]]
    ELSE Append(guc, [guild_id |-> g, cmds |-> commands])

\* the guild loop of lines 884-910, run until a push has to be awaited
RECURSIVE GuildLoop(_, _, _, _)
GuildLoop(gcmds, guc, flags, log) ==
    IF gcmds = <<>>
    THEN [obs |-> log, pending |-> <<>>, rest |-> <<>>]
    ELSE LET rec == ScopeDiff(Head(gcmds).guild_id, Head(gcmds).cmds,
                              GuildCacheGet(guc, Head(gcmds).guild_id), flags)
         IN IF rec.update_required
            THEN [obs |-> Append(log, rec), pending |-> <<rec>>, rest |-> Tail(gcmds)]
            ELSE GuildLoop(Tail(gcmds), guc, flags, Append(log, rec))

\* lines 883-884: the guild part, or nothing when guild sync is off
GuildPart(gcmds, guc, flags, log) ==
    IF flags.guild_commands
    THEN GuildLoop(gcmds, guc, flags, log)
    ELSE [obs |-> log, pending |-> <<>>, rest |-> <<>>]

\* _sync_application_commands from its first line to its first await (or its end)
SyncEnter(reg, heap, tg, flags, closed, gac, guc) ==
    IF ~flags.sync_commands \/ closed
    THEN [ran |-> FALSE, heap |-> heap, obs |-> <<>>, pending |-> <<>>, rest |-> <<>>]
    ELSE LET lists == ordered_unsynced_commands(reg, heap, tg)
             heap1 == MarkAlwaysSynced(reg, heap)
             rec == ScopeDiff(None, lists.global_cmds, gac, flags)
         IN IF flags.global_commands /\ rec.update_required
            THEN [ran |-> TRUE, heap |-> heap1, obs |-> <<rec>>, pending |-> <<rec>>,
                  rest |-> lists.guilds]
            ELSE LET g == GuildPart(lists.guilds, guc, flags,
                                    IF flags.global_commands THEN <<rec>> ELSE <<>>)
                 IN [ran |-> TRUE, heap |-> heap1, obs |-> g.obs,
                     pending |-> g.pending, rest |-> g.rest]

\* disnake.utils.get(all_commands, name=, guild_id=): the first key that matches
FirstByNameAndGuild(reg, name, guild_id) ==
    LET hits == SelectSeq(reg, LAMBDA e : e.meta.name = name /\ e.meta.guild_id = guild_id)
    IN IF hits = <<>> THEN <<>> ELSE <<hits[1].cmd>>

\* the loop without the `if cmd.body.id is None` guard of lines 951 and 964
RECURSIVE FillFromOverwriting(_, _, _, _)
FillFromOverwriting(heap, reg, api, guild_id) ==
    IF api = <<>>
    THEN heap
    ELSE LET hit == FirstByNameAndGuild(reg, Head(api).name, guild_id)
             heap1 == IF hit # <<>>
                      THEN [heap EXCEPT ![hit[1]].id = Head(api).id]
                      ELSE heap
         IN FillFromOverwriting(heap1, reg, Tail(api), guild_id)

\* one `for api_command in ...` loop of _fill_app_command_ids
RECURSIVE FillFrom(_, _, _, _)
FillFrom(heap, reg, api, guild_id) ==
    IF api = <<>>
    THEN heap
    ELSE LET hit == FirstByNameAndGuild(reg, Head(api).name, guild_id)
             heap1 == IF hit # <<>> /\ heap[hit[1]].id = <<>>
                      THEN [heap EXCEPT ![hit[1]].id = Head(api).id]
                      ELSE heap
         IN FillFrom(heap1, reg, Tail(api), guild_id)

RECURSIVE FillGuilds(_, _, _)
FillGuilds(heap, reg, guc) ==
    IF guc = <<>>
    THEN heap
    ELSE FillGuilds(FillFrom(heap, reg, Head(guc).cmds, Head(guc).guild_id),
                    reg, Tail(guc))

\* _fill_app_command_ids
fill_app_command_ids(heap, reg, gac, guc) ==
    FillGuilds(FillFrom(heap, reg, gac, None), reg, guc)

\* the platform's command for a payload it stored in a scope
RemoteCommand(scope, p) ==
    [id |-> <<scope, p.name, p.type>>, name |-> p.name, type |-> p.type,
     desc |-> p.desc]

\* bulk_overwrite_global_commands / bulk_overwrite_guild_commands on success:
\* the scope's commands become the list sent, which comes back with ids
Stored(scope, to_send) == [i \in 1..Len(to_send) |-> RemoteCommand(scope, to_send[i])]

-----------------------------------------------------------------------------
(* Initial state: the bot right after __init__ (lines 143-179).             *)

DefaultFlags ==
    [sync_commands |-> TRUE, global_commands |-> TRUE, guild_commands |-> TRUE,
     allow_command_deletion |-> TRUE]

\* a task as create_task leaves it; succ, inwin and sw are bookkeeping:
\*   succ   how the pass of this task follows the previous pass
\*   inwin  the task was scheduled by an event of the observed debounce window
\*   early  the task was scheduled while the client was closed ("closed") or
\*          not yet ready ("unready"), else "no"
\*   sw     the task began its debounce wait while that window was open
NewTask == [pc |-> "created", fguilds |-> <<>>, rest |-> <<>>, scope |-> None,
            to_send |-> <<>>, succ |-> "no", inwin |-> FALSE, sw |-> FALSE,
            early |-> "no"]

\* changed     the registry changed since the last pass read it (line 852)
\* prev        how the last finished pass went: none | ok | failed (a push failed)
\* prev_pushed the last finished pass issued a push
\* cur_*       the same for the pass in progress
\* ffail       the scopes whose fetch failed in the preparation pass
\* fetched     the scopes whose fetch returned during the pass in progress (or
\*             the last one)
\* initial     that pass is the one of the preparation task
\* todo        the scopes the pass in progress (or the last one) had to handle
\* diffed      the scopes it has diffed, need those of them that required an
\*             update, pushed those it awaited a bulk overwrite for, and warned
\*             those whose bulk overwrite raised (lines 879, 907)
\* diffseq     the scopes it has diffed, in the order of the diffs
\* pushseq     the scopes it awaited a bulk overwrite for, one entry per call
\* win         the first debounce window after ready: none | open | over
\* idle        no sync was in progress when that window opened
\* nev, want   the events of that window and the commands registered at them
\* late        a delayed sync was scheduled after that window was over
\* unread      the commands registered after ready that no pass has read yet
\* asked       those of them for which a delayed sync was scheduled since
\* npass, cov  the passes started since it opened and the commands they diffed
NoHist == [changed |-> FALSE, prev |-> "none", prev_pushed |-> FALSE,
           cur_failed |-> FALSE, cur_pushed |-> FALSE,
           ffail |-> {}, fetched |-> {}, initial |-> FALSE, todo |-> {}, diffed |-> {}, need |-> {}, pushed |-> {},
           warned |-> {}, diffseq |-> <<>>, pushseq |-> <<>>,
           win |-> "none", idle |-> FALSE, nev |-> 0, want |-> {}, late |-> FALSE,
           npass |-> 0, cov |-> {}, unread |-> {}, asked |-> {}]

InitCommon ==
    /\ all_app_commands = <<>>
    /\ cmds = <<>>
    /\ sync_queued = FALSE
    /\ global_application_commands = <<>>
    /\ guild_application_commands = <<>>
    /\ first_connect = FALSE
    /\ ready = FALSE
    /\ is_closed = FALSE
    /\ tasks = <<NewTask>>
    /\ checks = [l \in CheckLists |-> <<>>]
    /\ ret = NoRet
    /\ obs = <<>>
    /\ hist = NoHist

InitRegistry ==
    /\ InitCommon
    /\ command_sync = DefaultFlags
    /\ test_guilds = [is_none |-> TRUE, ids |-> <<>>]
    /\ remote = [s \in Scopes |-> <<>>]
    /\ watch = "registry"

NextRegistry ==
    \/ \E n \in Names, g \in GuildIdChoices : add_slash_command(n, g, TRUE)
    \/ \E n \in CtxNames, g \in CtxGuildIdChoices : add_user_command(n, g, TRUE)
    \/ \E n \in CtxNames, g \in CtxGuildIdChoices : add_message_command(n, g, TRUE)
    \/ \E n \in Names, g \in Scopes : remove_slash_command(n, g)
    \/ \E n \in CtxNames, g \in CtxScopes : remove_user_command(n, g)
    \/ \E n \in CtxNames, g \in CtxScopes : remove_message_command(n, g)
    \/ \E n \in CtxNames, t \in Types, g \in CtxScopes : get_app_command(n, t, g)
    \/ \E n \in Names, g \in Scopes : get_slash_command(n, g)
    \/ \E n \in CtxNames, g \in CtxScopes : get_user_command(n, g)
    \/ \E n \in CtxNames, g \in CtxScopes : get_message_command(n, g)

SpecRegistry == InitRegistry /\ [][NextRegistry]_vars

-----------------------------------------------------------------------------
(* Scheduler: the preparation task, the delayed tasks and their awaits.     *)

IncCapped(n) == IF n < 2 THEN n + 1 ELSE n

\* the scopes a pass over the registry reg has to handle: the global scope, and
\* every guild a command is declared for or put into by test_guilds
PassScopes(reg, heap, tg, flags) ==
    (IF flags.global_commands THEN {None} ELSE {})
    \cup (IF ~flags.guild_commands THEN {}
          ELSE UNION {LET ids == IF heap[reg[i].cmd].guild_ids # <<>>
                                 THEN heap[reg[i].cmd].guild_ids
                                 ELSE IF tg.is_none THEN <<>> ELSE tg.ids
                      IN {ids[k] : k \in 1..Len(ids)} : i \in 1..Len(reg)})

\* bookkeeping when a pass reads the registry (line 852)
PassStarted(h, ran) ==
    IF ~ran THEN h
    ELSE [h EXCEPT !.changed = FALSE, !.cur_failed = FALSE, !.cur_pushed = FALSE,
                   !.todo = IF WatchSync
                            THEN PassScopes(all_app_commands, cmds, test_guilds,
                                            command_sync)
                            ELSE @,
                   !.diffed = {}, !.need = {}, !.pushed = {}, !.warned = {},
                   !.diffseq = <<>>, !.pushseq = <<>>,
                   !.npass = IF h.win # "none" THEN IncCapped(@) ELSE @,
                   !.cov = IF h.win # "none" THEN @ \cup Refs(all_app_commands) ELSE @,
                   !.unread = {}, !.asked = {}]

Succession(h, ran) ==
    IF ~ran \/ h.prev = "none" \/ h.changed \/ ~WatchSync THEN "no"
    ELSE IF h.prev = "failed" THEN "after_failed"
    ELSE IF h.prev_pushed THEN "after_pushed" ELSE "after_quiet"

\* bookkeeping when a pass that read the registry returns
PassFinished(h) ==
    IF ~WatchSync THEN h
    ELSE [h EXCEPT !.prev = IF h.cur_failed THEN "failed" ELSE "ok",
                   !.prev_pushed = h.cur_pushed,
                   !.cur_failed = FALSE, !.cur_pushed = FALSE]

\* bookkeeping of the diffs a step of the pass computed and the push it awaits
Observed(h, r) ==
    IF ~WatchSync THEN h
    ELSE [h EXCEPT !.diffed = @ \cup {r.obs[n].scope : n \in 1..Len(r.obs)},
                   !.need = @ \cup {r.obs[n].scope :
                                    n \in {n \in 1..Len(r.obs) : r.obs[n].update_required}},
                   !.pushed = @ \cup {r.pending[n].scope : n \in 1..Len(r.pending)},
                   !.diffseq = @ \o [n \in 1..Len(r.obs) |-> r.obs[n].scope],
                   !.pushseq = @ \o [n \in 1..Len(r.pending) |-> r.pending[n].scope]]

\* bookkeeping of a fetch that returned or failed
FetchDone(h, scope, ok) ==
    IF ~WatchSync THEN h
    ELSE IF ~ok THEN [h EXCEPT !.ffail = @ \cup {scope}]
    ELSE IF watch = "order" THEN [h EXCEPT !.fetched = @ \cup {scope}]
    ELSE h

\* bookkeeping when task i begins a pass: a delayed task has fetched nothing
PassOf(h, i) ==
    IF watch # "order" THEN h
    ELSE [h EXCEPT !.initial = i = 1, !.fetched = IF i = 1 THEN @ ELSE {}]

FlagLeftSet == TRUE
\* lines 936 and 985: self._sync_queued = False
FlagAfterPass == FALSE

\* The caller of _sync_application_commands resumes at `r`, the point the pass
\* has reached: either the pass awaits the push r.pending, or it has returned and
\* lines 935-936 / 984-985 run (_fill_app_command_ids, _sync_queued = False).
Resume(i, r, h, succ, gac, guc) ==
    IF r.pending # <<>>
    THEN /\ tasks' = [tasks EXCEPT ![i] =
                        [@ EXCEPT !.pc = "push", !.scope = r.pending[1].scope,
                                  !.to_send = r.pending[1].to_send,
                                  !.rest = r.rest, !.fguilds = <<>>, !.succ = succ]]
         /\ cmds' = r.heap
         /\ sync_queued' = sync_queued
         /\ hist' = [Observed(h, r) EXCEPT !.cur_pushed = WatchSync]
         /\ obs' = IF WatchSync THEN r.obs ELSE <<>>
    ELSE /\ tasks' = [tasks EXCEPT ![i] =
                        [@ EXCEPT !.pc = "done", !.scope = None, !.to_send = <<>>,
                                  !.rest = <<>>, !.fguilds = <<>>, !.succ = succ]]
         /\ cmds' = fill_app_command_ids(r.heap, all_app_commands, gac, guc)
         /\ sync_queued' = FlagAfterPass
         /\ hist' = IF r.ran THEN PassFinished(Observed(h, r)) ELSE h
         /\ obs' = IF WatchSync THEN r.obs ELSE <<>>

\* await self._sync_application_commands() and what follows it in the caller
EnterSync(i, heap, h, gac, guc) ==
    \E r \in {SyncEnter(all_app_commands, heap, test_guilds, command_sync, is_closed,
                        gac, guc)} :
       \E h1 \in {PassStarted(IF r.ran THEN PassOf(h, i) ELSE h, r.ran)} :
          Resume(i, r, h1, Succession(h, r.ran), gac, guc)

\* _prepare_application_commands, line 931, up to wait_until_first_connect()
prepare_start ==
    /\ tasks[1].pc = "created"
    /\ sync_queued' = TRUE
    /\ tasks' = [tasks EXCEPT ![1].pc = "wait_first_connect"]
    /\ ret' = NoRet
    /\ obs' = <<>>
    /\ UNCHANGED config
    /\ UNCHANGED <<all_app_commands, cmds,
                   global_application_commands, guild_application_commands, remote,
                   first_connect, ready, is_closed, hist>>

GuildIdsOf(guilds) == [k \in 1..Len(guilds) |-> guilds[k].guild_id]

PreparationResumesUnconnected(pc, connected) == pc = "wait_first_connect"
\* lines 932-933: the preparation task goes on to _cache_application_commands
\* when wait_until_first_connect() returns, which is once a connect has happened
PreparationResumes(pc, connected) == pc = "wait_first_connect" /\ connected

\* _cache_application_commands, lines 808-819, up to the global fetch
prepare_connected ==
    /\ PreparationResumes(tasks[1].pc, first_connect)
    /\ LET lists == ordered_unsynced_commands(all_app_commands, cmds, test_guilds)
       IN /\ cmds' = MarkAlwaysSynced(all_app_commands, cmds)
          /\ tasks' = [tasks EXCEPT ![1].pc = "fetch_global",
                                    ![1].fguilds = GuildIdsOf(lists.guilds)]
    /\ ret' = NoRet
    /\ obs' = <<>>
    /\ UNCHANGED config
    /\ UNCHANGED <<all_app_commands, sync_queued,
                   global_application_commands, guild_application_commands, remote,
                   first_connect, ready, is_closed, hist>>

Ids(api) == {api[k].id : k \in 1..Len(api)}

\* lines 826-828: an id the global snapshot does not hold is forgotten
ForgetUnknownIds(reg, heap, global_commands) ==
    [r \in DOMAIN heap |->
        IF r \in Refs(reg) /\ heap[r].id # <<>> /\ heap[r].id \notin Ids(global_commands)
        THEN [heap[r] EXCEPT !.id = <<>>]
        ELSE heap[r]]

\* after the fetches: the guild fetch loop goes on, or the pass begins
AfterFetch(h, heap, gac, guc, left) ==
    IF left # <<>>
    THEN /\ tasks' = [tasks EXCEPT ![1].pc = "fetch_guild", ![1].fguilds = left]
         /\ cmds' = heap
         /\ obs' = <<>>
         /\ hist' = h
         /\ UNCHANGED sync_queued
    ELSE EnterSync(1, heap, h, gac, guc)

FetchedSnapshotDropped(ok, fetched, cached) == cached
\* lines 818-823: the global snapshot is replaced by what the fetch returned, and
\* kept when the fetch raised
FetchedSnapshot(ok, fetched, cached) == IF ok THEN fetched ELSE cached

\* lines 818-828: fetch_global_commands returns, or fails with HTTPException
fetch_global_done ==
    /\ tasks[1].pc = "fetch_global"
    /\ \E ok \in BOOLEAN :
          \E gac \in {FetchedSnapshot(ok, remote[None], global_application_commands)} :
          \E heap \in {IF ok THEN ForgetUnknownIds(all_app_commands, cmds, gac) ELSE cmds} :
          \E h \in {FetchDone(hist, None, ok)} :
             /\ global_application_commands' = gac
             /\ AfterFetch(h, heap, gac, guild_application_commands, tasks[1].fguilds)
    /\ ret' = NoRet
    /\ UNCHANGED config
    /\ UNCHANGED <<all_app_commands,
                   guild_application_commands, remote, first_connect, ready, is_closed>>

\* lines 830-841: fetch_guild_commands returns, or fails with HTTPException
fetch_guild_done ==
    /\ tasks[1].pc = "fetch_guild"
    /\ \E ok \in BOOLEAN :
          \E g \in {Head(tasks[1].fguilds)} :
          \E guc \in {IF ok /\ remote[g] # <<>>
                      THEN GuildCacheSet(guild_application_commands, g, remote[g])
                      ELSE guild_application_commands} :
          \E h \in {FetchDone(hist, g, ok)} :
             /\ guild_application_commands' = guc
             /\ AfterFetch(h, cmds, global_application_commands, guc,
                           Tail(tasks[1].fguilds))
    /\ ret' = NoRet
    /\ UNCHANGED config
    /\ UNCHANGED <<all_app_commands,
                   global_application_commands, remote, first_connect, ready, is_closed>>

AfterPushAborting(ok, rest) == IF ok THEN rest ELSE <<>>
\* lines 878-879 and 906-910: `except Exception` only warns, so the guild lists
\* still to handle are the same whether the bulk overwrite returned or raised
AfterPush(ok, rest) == rest

\* lines 873-879 and 902-910: the awaited bulk overwrite returns or raises, and the
\* pass goes on with the guild scopes that are left
push_done(i) ==
    /\ tasks[i].pc = "push"
    /\ \E ok \in BOOLEAN :
          \E s \in {tasks[i].scope} :
          \E stored \in {Stored(s, tasks[i].to_send)} :
          \E gac \in {IF ok /\ s = None THEN stored ELSE global_application_commands} :
          \E guc \in {IF ok /\ s # None
                      THEN GuildCacheSet(guild_application_commands, s, stored)
                      ELSE guild_application_commands} :
          \E left \in {AfterPush(ok, tasks[i].rest)} :
          \E g \in {IF s = None
                    THEN GuildPart(left, guc, command_sync, <<>>)
                    ELSE GuildLoop(left, guc, command_sync, <<>>)} :
          \E r \in {[ran |-> TRUE, heap |-> cmds, obs |-> g.obs, pending |-> g.pending,
                     rest |-> g.rest]} :
          \E h \in {[hist EXCEPT !.cur_failed = @ \/ (WatchSync /\ ~ok),
                                 !.warned = IF WatchSync /\ ~ok
                                            THEN @ \cup {s} ELSE @]} :
             /\ remote' = IF ok THEN [remote EXCEPT ![s] = stored] ELSE remote
             /\ global_application_commands' = gac
             /\ guild_application_commands' = guc
             /\ Resume(i, r, h, tasks[i].succ, gac, guc)
    /\ ret' = NoRet
    /\ UNCHANGED config
    /\ UNCHANGED <<all_app_commands, first_connect, ready,
                   is_closed>>

\* whether create_task is called while the client is closed or not yet ready
ScheduledEarly ==
    IF watch # "scheduler" THEN "no"
    ELSE IF is_closed THEN "closed"
    ELSE IF ~ready THEN "unready"
    ELSE "no"

\* _schedule_delayed_command_sync
schedule_delayed_command_sync ==
    /\ Len(tasks) < 1 + (IF WatchSync THEN MaxResync ELSE MaxDelayed)
    /\ LET counted == watch = "scheduler" /\ ready /\ hist.win # "over"
       IN /\ tasks' = Append(tasks, [NewTask EXCEPT !.inwin = counted,
                                                   !.early = ScheduledEarly])
          /\ hist' = IF counted
                     THEN [hist EXCEPT !.win = "open",
                                       !.idle = IF hist.win = "none"
                                                THEN ~sync_queued ELSE @,
                                       !.nev = IncCapped(@),
                                       !.want = @ \cup Refs(all_app_commands)]
                     ELSE [hist EXCEPT !.late = @ \/ (watch = "scheduler" /\ hist.win = "over"),
                                       !.asked = IF watch = "runtime" /\ ready
                                                 THEN @ \cup hist.unread ELSE @]
    /\ ret' = NoRet
    /\ obs' = <<>>
    /\ UNCHANGED config
    /\ UNCHANGED <<all_app_commands, cmds, sync_queued,
                   global_application_commands, guild_application_commands, remote,
                   first_connect, ready, is_closed>>

DelayedSkipsIgnoringReady(flags, queued, rdy, closed) ==
    ~flags.sync_commands \/ queued \/ closed
DelayedSkipsIgnoringSyncFlag(flags, queued, rdy, closed) ==
    queued \/ ~rdy \/ closed
DelayedSkipsIgnoringQueued(flags, queued, rdy, closed) ==
    ~flags.sync_commands \/ ~rdy \/ closed
\* lines 971-977: the conditions under which _delayed_command_sync returns at once
DelayedSkips(flags, queued, rdy, closed) ==
    ~flags.sync_commands \/ queued \/ ~rdy \/ closed

\* _delayed_command_sync up to asyncio.sleep(2)
delayed_start(i) ==
    /\ i > 1
    /\ tasks[i].pc = "created"
    /\ IF DelayedSkips(command_sync, sync_queued, ready, is_closed)
       THEN /\ tasks' = [tasks EXCEPT ![i].pc = "done"]
            /\ UNCHANGED sync_queued
       ELSE /\ tasks' = [tasks EXCEPT ![i].pc = "sleep", ![i].sw = hist.win = "open"]
            /\ sync_queued' = TRUE
    /\ ret' = NoRet
    /\ obs' = <<>>
    /\ UNCHANGED config
    /\ UNCHANGED <<all_app_commands, cmds,
                   global_application_commands, guild_application_commands, remote,
                   first_connect, ready, is_closed, hist>>

\* a task that create_task made runs its first step within the loop iteration,
\* long before a 2 s timer set now can fire
NoneCreated == \A j \in 1..Len(tasks) : tasks[j].pc # "created"

\* asyncio.sleep(2) returns: lines 983-985
delayed_wake(i) ==
    /\ tasks[i].pc = "sleep"
    /\ NoneCreated
    /\ EnterSync(i, cmds,
                 [hist EXCEPT !.win = IF tasks[i].sw THEN "over" ELSE @],
                 global_application_commands, guild_application_commands)
    /\ ret' = NoRet
    /\ UNCHANGED config
    /\ UNCHANGED <<all_app_commands,
                   global_application_commands, guild_application_commands, remote,
                   first_connect, ready, is_closed>>

\* two seconds have passed since the observed debounce window opened
debounce_window_elapses ==
    /\ hist.win = "open"
    /\ NoneCreated
    /\ \A j \in 1..Len(tasks) : ~(tasks[j].pc = "sleep" /\ tasks[j].sw)
    /\ hist' = [hist EXCEPT !.win = "over"]
    /\ ret' = NoRet
    /\ obs' = <<>>
    /\ UNCHANGED config
    /\ UNCHANGED <<all_app_commands, cmds, sync_queued,
                   global_application_commands, guild_application_commands, remote,
                   first_connect, ready, is_closed, tasks>>

\* the gateway connects for the first time; the preparation task, created in
\* __init__, has run its first step by then
connect ==
    /\ ~first_connect
    /\ tasks[1].pc # "created"
    /\ first_connect' = TRUE
    /\ ret' = NoRet
    /\ obs' = <<>>
    /\ UNCHANGED config
    /\ UNCHANGED <<all_app_commands, cmds, sync_queued,
                   global_application_commands, guild_application_commands, remote,
                   ready, is_closed, tasks, hist>>

\* READY has been processed: is_ready() is true from now on.  The preparation
\* task, woken by the first connect, has resumed before READY arrives.
become_ready ==
    /\ first_connect
    /\ ~ready
    /\ tasks[1].pc # "wait_first_connect"
    /\ ready' = TRUE
    /\ ret' = NoRet
    /\ obs' = <<>>
    /\ UNCHANGED config
    /\ UNCHANGED <<all_app_commands, cmds, sync_queued,
                   global_application_commands, guild_application_commands, remote,
                   first_connect, is_closed, tasks, hist>>

\* Client.close()
close ==
    /\ ~is_closed
    /\ is_closed' = TRUE
    /\ ret' = NoRet
    /\ obs' = <<>>
    /\ UNCHANGED config
    /\ UNCHANGED <<all_app_commands, cmds, sync_queued,
                   global_application_commands, guild_application_commands, remote,
                   first_connect, ready, tasks, hist>>

\* what the platform may hold before the bot first connects
RemoteA1 == RemoteCommand(None, [name |-> "a", type |-> chat_input, desc |-> 1])
RemoteA2(scope) == RemoteCommand(scope, [name |-> "a", type |-> chat_input, desc |-> 2])
RemoteB(scope) == RemoteCommand(scope, [name |-> "b", type |-> user, desc |-> 1])
GlobalRemoteChoices == {<<>>, <<RemoteA1>>, <<RemoteA2(None), RemoteB(None)>>}
GuildRemoteChoices == {<<>>, <<RemoteA2("7"), RemoteB("7")>>}

FlagChoices ==
    {DefaultFlags, [DefaultFlags EXCEPT !.allow_command_deletion = FALSE]}

TestGuildChoices == {[is_none |-> TRUE, ids |-> <<>>], [is_none |-> FALSE, ids |-> <<"7">>]}

Init ==
    /\ InitCommon
    /\ watch = "sync"
    /\ command_sync \in FlagChoices
    /\ test_guilds \in TestGuildChoices
    /\ \E gl \in GlobalRemoteChoices, g7 \in GuildRemoteChoices :
          remote = [s \in Scopes |-> IF s = None THEN gl ELSE IF s = "7" THEN g7 ELSE <<>>]

Next ==
    \/ \E g \in CtxGuildIdChoices, au \in BOOLEAN : add_slash_command("a", g, au)
    \/ \E g \in CtxGuildIdChoices : add_user_command("b", g, TRUE)
    \/ add_message_command("a", <<>>, TRUE)
    \/ connect
    \/ become_ready
    \/ prepare_start
    \/ prepare_connected
    \/ fetch_global_done
    \/ fetch_guild_done
    \/ schedule_delayed_command_sync
    \/ \E i \in 1..Len(tasks) : delayed_start(i)
    \/ \E i \in 1..Len(tasks) : delayed_wake(i)
    \/ \E i \in 1..Len(tasks) : push_done(i)

Spec == Init /\ [][Next]_vars

\* the scheduler under observation: one configuration, every interleaving
InitSched ==
    /\ InitCommon
    /\ watch = "scheduler"
    /\ command_sync = DefaultFlags
    /\ test_guilds = [is_none |-> TRUE, ids |-> <<>>]
    /\ remote = [s \in Scopes |-> <<>>]

NextSched ==
    \/ \E g \in CtxGuildIdChoices : add_slash_command("a", g, TRUE)
    \/ \E g \in CtxScopes : remove_slash_command("a", g)
    \/ connect
    \/ become_ready
    \/ close
    \/ prepare_start
    \/ prepare_connected
    \/ fetch_global_done
    \/ fetch_guild_done
    \/ schedule_delayed_command_sync
    \/ \E i \in 1..Len(tasks) : delayed_start(i)
    \/ \E i \in 1..Len(tasks) : delayed_wake(i)
    \/ \E i \in 1..Len(tasks) : push_done(i)
    \/ debounce_window_elapses

SpecSched == InitSched /\ [][NextSched]_vars

\* command sync enabled or disabled by configuration, against a platform that
\* holds commands the registry does not
InitFlags ==
    /\ InitCommon
    /\ watch = "flags"
    /\ command_sync \in {DefaultFlags, [DefaultFlags EXCEPT !.sync_commands = FALSE]}
    /\ test_guilds = [is_none |-> TRUE, ids |-> <<>>]
    /\ remote = [s \in Scopes |-> IF s = "8" THEN <<>> ELSE <<RemoteA2(s), RemoteB(s)>>]

NextFlags ==
    \/ \E g \in CtxGuildIdChoices : add_slash_command("a", g, TRUE)
    \/ connect
    \/ become_ready
    \/ close
    \/ prepare_start
    \/ prepare_connected
    \/ fetch_global_done
    \/ fetch_guild_done
    \/ schedule_delayed_command_sync
    \/ \E i \in 1..Len(tasks) : delayed_start(i)
    \/ \E i \in 1..Len(tasks) : delayed_wake(i)
    \/ \E i \in 1..Len(tasks) : push_done(i)

SpecFlags == InitFlags /\ [][NextFlags]_vars

\* ---- global checks --------------------------------------------------------

\* the list one `if <category>:` block of add/remove_app_command_check works on
CheckListOf(type, call_once) ==
    IF type = chat_input
    THEN (IF call_once THEN "_slash_command_check_once" ELSE "_slash_command_checks")
    ELSE IF type = user
    THEN (IF call_once THEN "_user_command_check_once" ELSE "_user_command_checks")
    ELSE (IF call_once THEN "_message_command_check_once" ELSE "_message_command_checks")

\* the categories whose keyword flag is set
Flagged(slash_commands, user_commands, message_commands) ==
    {t \in Types : \/ t = chat_input /\ slash_commands
                   \/ t = user /\ user_commands
                   \/ t = message /\ message_commands}

\* the blocks ignore call_once and work on both lists of a category
SelectedIgnoringCallOnce(call_once, slash_commands, user_commands, message_commands) ==
    UNION {{CheckListOf(t, TRUE), CheckListOf(t, FALSE)} :
           t \in Flagged(slash_commands, user_commands, message_commands)}

\* the lists the three blocks reach, given the keyword flags
Selected(call_once, slash_commands, user_commands, message_commands) ==
    {CheckListOf(t, call_once) :
     t \in Flagged(slash_commands, user_commands, message_commands)}

\* func in list
Occurs(list, func) == \E i \in 1..Len(list) : list[i] = func

\* list.remove(func): drops the first occurrence; raises ValueError, which the
\* caller swallows, when there is none
ListRemove(list, func) ==
    IF \A i \in 1..Len(list) : list[i] # func THEN [list |-> list, exc |-> None]
    ELSE LET k == CHOOSE i \in 1..Len(list) :
                      list[i] = func /\ \A j \in 1..(i - 1) : list[j] # func
         IN [list |-> [i \in 1..(Len(list) - 1) |->
                          IF i < k THEN list[i] ELSE list[i + 1]],
             exc |-> None]

\* the lists after add_app_command_check
AddCheck(lists, func, call_once, slash_commands, user_commands, message_commands) ==
    [l \in CheckLists |->
        IF l \in Selected(call_once, slash_commands, user_commands, message_commands)
        THEN Append(lists[l], func) ELSE lists[l]]

\* the lists after remove_app_command_check
RemoveCheck(lists, func, call_once, slash_commands, user_commands, message_commands) ==
    [l \in CheckLists |->
        IF l \in Selected(call_once, slash_commands, user_commands, message_commands)
        THEN ListRemove(lists[l], func).list ELSE lists[l]]

\* what remove_app_command_check raises
RemoveCheckExc(lists, func, call_once, slash_commands, user_commands, message_commands) ==
    IF \E l \in Selected(call_once, slash_commands, user_commands, message_commands) :
          ListRemove(lists[l], func).exc # None
    THEN "ValueError" ELSE None

\* the outcome r of a check-list call, when those calls are under observation
CheckOutcome(r) == IF watch = "checks" THEN r ELSE NoRet

add_app_command_check(func, call_once, slash_commands, user_commands, message_commands) ==
    /\ \A l \in Selected(call_once, slash_commands, user_commands, message_commands) :
          Len(checks[l]) < MaxChecks
    /\ checks' = AddCheck(checks, func, call_once,
                          slash_commands, user_commands, message_commands)
    /\ ret' = CheckOutcome([op |-> "add_check", func |-> func, call_once |-> call_once,
                            slash_commands |-> slash_commands,
                            user_commands |-> user_commands,
                            message_commands |-> message_commands,
                            exc |-> None, before |-> checks])
    /\ obs' = <<>>
    /\ UNCHANGED <<command_sync, test_guilds, watch, all_app_commands, cmds, hist>>
    /\ UNCHANGED <<sync_queued, global_application_commands,
                   guild_application_commands, remote, first_connect, ready,
                   is_closed, tasks>>

remove_app_command_check(func, call_once, slash_commands, user_commands, message_commands) ==
    /\ checks' = RemoveCheck(checks, func, call_once,
                             slash_commands, user_commands, message_commands)
    /\ ret' = CheckOutcome([op |-> "remove_check", func |-> func, call_once |-> call_once,
                            slash_commands |-> slash_commands,
                            user_commands |-> user_commands,
                            message_commands |-> message_commands,
                            exc |-> RemoveCheckExc(checks, func, call_once, slash_commands,
                                                   user_commands, message_commands),
                            before |-> checks])
    /\ obs' = <<>>
    /\ UNCHANGED <<command_sync, test_guilds, watch, all_app_commands, cmds, hist>>
    /\ UNCHANGED <<sync_queued, global_application_commands,
                   guild_application_commands, remote, first_connect, ready,
                   is_closed, tasks>>

InitChecks ==
    /\ InitCommon
    /\ watch = "checks"
    /\ command_sync = DefaultFlags
    /\ test_guilds = [is_none |-> TRUE, ids |-> <<>>]
    /\ remote = [s \in Scopes |-> <<>>]

\* "p" is added to any selection of lists, "q" to the slash command checks only;
\* either is removed from any selection
NextChecks ==
    \/ \E once, s, u, m \in BOOLEAN : add_app_command_check("p", once, s, u, m)
    \/ add_app_command_check("q", FALSE, TRUE, FALSE, FALSE)
    \/ \E f \in Funcs, once, s, u, m \in BOOLEAN : remove_app_command_check(f, once, s, u, m)

SpecChecks == InitChecks /\ [][NextChecks]_vars

\* ---- dispatcher -------------------------------------------------------------

\* what a global check, or the invocation of a command, may do
CheckResults == {"pass", "fail", "CommandError", "Exception"}
InvokeResults == {"ok", "CommandError", "Exception"}

\* errors.CommandError and its subclasses, errors.CheckFailure among them
CommandErrors == {"CommandError", "CheckFailure"}

\* interaction.data.id of an event: the id of a command the platform may hold,
\* or one it has forgotten; interaction.data.type is the type of that command
InteractionIds ==
    {<<None, "a", chat_input>>, <<"7", "a", chat_input>>, <<None, "b", user>>,
     <<"8", "z", chat_input>>}

\* the guilds events come from
InteractionGuilds == {"7", "8"}

\* get_global_command(id) / get_guild_command(guild_id, id): the cached snapshots
get_global_command(gac, id) == id \in Ids(gac)
get_guild_command(guc, guild_id, id) == id \in Ids(GuildCacheGet(guc, guild_id))

\* lines 1398-1401: known_command is not None
KnownCommand(gac, guc, guild_id, id) ==
    get_global_command(gac, id) \/ get_guild_command(guc, guild_id, id)

CorrectsWhileQueued(flags, queued, known) == flags.sync_commands /\ ~known
CorrectsWhileDisabled(flags, queued, known) == ~queued /\ ~known
CorrectsKnown(flags, queued, known) == flags.sync_commands /\ ~queued
\* lines 1397 and 1403: the corrective branch is taken
Corrects(flags, queued, known) == flags.sync_commands /\ ~queued /\ ~known

\* lines 1427-1434: the first command of the registry whose body.id is the id
\* of the event, as <<ref>>, or <<>>
AppCommandOf(reg, heap, id) ==
    LET hits == SelectSeq(reg, LAMBDA e : heap[e.cmd].id = id)
    IN IF hits = <<>> THEN <<>> ELSE <<hits[1].cmd>>

\* lines 1436-1443
EventName(type) ==
    IF type = chat_input THEN "slash_command"
    ELSE IF type = user THEN "user_command"
    ELSE IF type = message THEN "message_command"
    ELSE None

\* one entry of the log of a dispatch: what was done (k), to which event, check,
\* guild or notice (name), for which command (cmd, 0 if none), with which result
\* (r); "event" is dispatch(event_name), "completion" dispatch(event_name_completion)
Entry(k, name, cmd, r) == [k |-> k, name |-> name, cmd |-> cmd, r |-> r]

\* utils.async_all(f(inter) for f in checks): the index of the check that ends
\* the evaluation, 0 if every check passes
FirstStop(list, beh) ==
    IF \A n \in 1..Len(list) : beh[list[n]] = "pass" THEN 0
    ELSE CHOOSE n \in 1..Len(list) :
            beh[list[n]] # "pass" /\ \A j \in 1..(n - 1) : beh[list[j]] = "pass"

CanRunWhateverChecksSay(list, beh) == "True"
\* application_command_can_run(inter, call_once=True): "True", "False", or the
\* error the check raised
CanRun(list, beh) ==
    IF FirstStop(list, beh) = 0 THEN "True"
    ELSE IF beh[list[FirstStop(list, beh)]] = "fail" THEN "False"
    ELSE beh[list[FirstStop(list, beh)]]

\* the checks application_command_can_run evaluated, in order
Evaluated(list, beh) ==
    [n \in 1..(IF FirstStop(list, beh) = 0 THEN Len(list) ELSE FirstStop(list, beh)) |->
        Entry("check", list[n], 0, beh[list[n]])]

\* lines 1451-1456: what the body of the try raises (None if nothing)
Raised(can_run, inv) ==
    IF can_run = "True" THEN (IF inv = "ok" THEN None ELSE inv)
    ELSE IF can_run = "False" THEN "CheckFailure"
    ELSE can_run

CaughtNever(exc) == FALSE
CaughtAlways(exc) == exc # None
\* line 1457: except errors.CommandError
Caught(exc) == exc \in CommandErrors

\* lines 1450-1458 for the matched command cmd
Invocation(event_name, list, beh, cmd, inv) ==
    <<Entry("event", event_name, 0, None)>>
    \o Evaluated(list, beh)
    \o (IF CanRun(list, beh) = "True" THEN <<Entry("invoke", "", cmd, inv)>> ELSE <<>>)
    \o (IF Raised(CanRun(list, beh), inv) = None
        THEN <<Entry("completion", event_name, 0, None)>> ELSE <<>>)
    \o (IF Caught(Raised(CanRun(list, beh), inv))
        THEN <<Entry("dispatch_error", "", cmd, Raised(CanRun(list, beh), inv))>>
        ELSE <<>>)

\* what escapes process_application_commands
Escapes(list, beh, inv) ==
    IF Caught(Raised(CanRun(list, beh), inv)) THEN None
    ELSE Raised(CanRun(list, beh), inv)

CorrectionEndedByFailure(guild_id, clear_ok, notice_ok) ==
    <<Entry("bulk_overwrite_guild_commands", guild_id, 0, IF clear_ok THEN "ok" ELSE "HTTPException")>>
    \o (IF clear_ok
        THEN <<Entry("send_message", "just synced", 0, IF notice_ok THEN "ok" ELSE "HTTPException")>>
        ELSE <<>>)
\* lines 1404-1421: the corrective branch
Correction(guild_id, clear_ok, notice_ok) ==
    <<Entry("bulk_overwrite_guild_commands", guild_id, 0, IF clear_ok THEN "ok" ELSE "HTTPException"),
      Entry("send_message", "just synced", 0, IF notice_ok THEN "ok" ELSE "HTTPException")>>

\* the outcome r of a dispatch, when dispatches are under observation
DispatchOutcome(r) == IF watch = "dispatch" THEN r ELSE NoRet

IgnoredWhenUnmatched(event_name, app_command) == app_command = <<>>
\* line 1445: the event is ignored
Ignored(event_name, app_command) == event_name = None \/ app_command = <<>>

\* process_application_commands(interaction), for an interaction whose data
\* carries the command id `id` and the command type `type`
process_interaction(id, type, guild_id, clear_ok, notice_ok, beh, inv) ==
    LET known == KnownCommand(global_application_commands, guild_application_commands,
                              guild_id, id)
        corrects == Corrects(command_sync, sync_queued, known)
        app_command == AppCommandOf(all_app_commands, cmds, id)
        ignored == Ignored(EventName(type), app_command)
        list == IF type \in Types THEN checks[CheckListOf(type, TRUE)] ELSE <<>>
    IN /\ remote' = IF corrects /\ clear_ok THEN [remote EXCEPT ![guild_id] = <<>>]
                    ELSE remote
       /\ guild_application_commands' =
             IF corrects /\ clear_ok
             THEN GuildCacheSet(guild_application_commands, guild_id, <<>>)
             ELSE guild_application_commands
       /\ ret' = DispatchOutcome(
             [op |-> "dispatch", id |-> id, type |-> type, guild_id |-> guild_id,
              known |-> known, app_command |-> app_command,
              log |-> IF corrects THEN Correction(guild_id, clear_ok, notice_ok)
                      ELSE IF ignored THEN <<>>
                      ELSE Invocation(EventName(type), list, beh, app_command[1], inv),
              exc |-> IF corrects \/ ignored THEN None
                      ELSE Escapes(list, beh, inv)])
       /\ obs' = <<>>
       /\ UNCHANGED config
       /\ UNCHANGED <<all_app_commands, cmds, sync_queued, global_application_commands,
                      first_connect, ready, is_closed, tasks, hist>>

\* an interaction whose data.type is the type of the platform's command data.id
process_application_commands(id, guild_id, clear_ok, notice_ok, beh, inv) ==
    process_interaction(id, id[3], guild_id, clear_ok, notice_ok, beh, inv)
\* lines 1362-1377: process_app_command_autocompletion(inter), for an interaction
\* whose data names the command `name` and which came from guild_id (None outside
\* a guild)
\* line 1376: the descriptor found is asked for its autocompleter
AutocompleterCalled(guild_ids, guild_id) ==
    guild_ids = <<>> \/ Occurs(guild_ids, guild_id)

process_app_command_autocompletion(name, guild_id) ==
    LET slash_command == DictGet(all_app_commands,
                                 AppCommandMetadata(name, guild_id, chat_input))
    IN /\ ret' = DispatchOutcome(
             [op |-> "autocomplete", name |-> name, guild_id |-> guild_id,
              slash_command |-> slash_command,
              called |-> /\ slash_command # <<>>
                         /\ AutocompleterCalled(cmds[slash_command[1]].guild_ids,
                                                guild_id),
              exc |-> None])
       /\ obs' = <<>>
       /\ UNCHANGED config
       /\ UNCHANGED <<all_app_commands, cmds, sync_queued, global_application_commands,
                      guild_application_commands, remote,
                      first_connect, ready, is_closed, tasks, hist>>


\* The inputs of a dispatch that can make a difference in the present state: the
\* outcomes of the two HTTP calls when the corrective branch is taken, and what
\* the call-once checks in force and the invocation do when a command is matched.
TakesCorrection(id, guild_id) ==
    Corrects(command_sync, sync_queued,
             KnownCommand(global_application_commands, guild_application_commands,
                          guild_id, id))

Invokes(id, guild_id) ==
    ~TakesCorrection(id, guild_id) /\ AppCommandOf(all_app_commands, cmds, id) # <<>>

HTTPOutcomes(id, guild_id) == IF TakesCorrection(id, guild_id) THEN BOOLEAN ELSE {TRUE}

Behaviours(id, guild_id) ==
    IF Invokes(id, guild_id)
    THEN {beh \in [Funcs -> CheckResults] :
             \A f \in Funcs :
                 Occurs(checks[CheckListOf(id[3], TRUE)], f) \/ beh[f] = "pass"}
    ELSE {[f \in Funcs |-> "pass"]}

InvokeOutcomes(id, guild_id) == IF Invokes(id, guild_id) THEN InvokeResults ELSE {"ok"}

\* events for commands the platform holds or has forgotten, against a registry
\* that holds some of them, with sync enabled or disabled
InitDispatch ==
    /\ InitCommon
    /\ watch = "dispatch"
    /\ command_sync \in {DefaultFlags, [DefaultFlags EXCEPT !.sync_commands = FALSE]}
    /\ test_guilds = [is_none |-> TRUE, ids |-> <<>>]
    /\ remote = [s \in Scopes |-> IF s = None THEN <<RemoteA2(None), RemoteB(None)>>
                                  ELSE IF s = "7" THEN <<RemoteA2("7")>> ELSE <<>>]

\* the call-once slash checks grow from none to p to p, q; events arrive once
\* the bot is connected
NextDispatch ==
    \/ \E g \in {<<>>, <<"7">>} : add_slash_command("a", g, TRUE)
    \/ /\ checks["_slash_command_check_once"] = <<>>
       /\ add_app_command_check("p", TRUE, TRUE, FALSE, FALSE)
    \/ /\ checks["_slash_command_check_once"] = <<"p">>
       /\ add_app_command_check("q", TRUE, TRUE, FALSE, FALSE)
    \/ connect
    \/ become_ready
    \/ prepare_start
    \/ prepare_connected
    \/ fetch_global_done
    \/ fetch_guild_done
    \/ push_done(1)
    \/ \E id \in InteractionIds, g \in InteractionGuilds :
          /\ first_connect
          /\ \E clear_ok, notice_ok \in HTTPOutcomes(id, g), beh \in Behaviours(id, g),
                inv \in InvokeOutcomes(id, g) :
                process_application_commands(id, g, clear_ok, notice_ok, beh, inv)

SpecDispatch == InitDispatch /\ [][NextDispatch]_vars

\* the order of the guild scopes under observation: two guilds, declared by
\* commands that may be registered in either order, on a platform that differs
\* from the registry in every scope
InitOrder ==
    /\ InitCommon
    /\ watch = "order"
    /\ command_sync = DefaultFlags
    /\ test_guilds = [is_none |-> TRUE, ids |-> <<>>]
    /\ remote = [s \in Scopes |-> IF s = "8" THEN <<>> ELSE <<RemoteA2(s), RemoteB(s)>>]

NextOrder ==
    \/ \E g \in {<<>>, <<"7">>} : add_slash_command("a", g, TRUE)
    \/ add_slash_command("b", <<"8", "7">>, TRUE)
    \/ connect
    \/ become_ready
    \/ prepare_start
    \/ prepare_connected
    \/ fetch_global_done
    \/ fetch_guild_done
    \/ schedule_delayed_command_sync
    \/ \E i \in 1..Len(tasks) : delayed_start(i)
    \/ \E i \in 1..Len(tasks) : delayed_wake(i)
    \/ \E i \in 1..Len(tasks) : push_done(i)

SpecOrder == InitOrder /\ [][NextOrder]_vars

-----------------------------------------------------------------------------
(* Registry claims, checked under SpecRegistry.                              *)

\* the keys add_*_command tries for a command declared with guild_ids
KeysOfCall(name, type, guild_ids) ==
    IF guild_ids = <<>>
    THEN {AppCommandMetadata(name, None, type)}
    ELSE {AppCommandMetadata(name, guild_ids[i], type) : i \in 1..Len(guild_ids)}

\* C1: adding a command one of whose (name, type, scope) keys is already registered
\* raises CommandRegistrationError and leaves every existing entry as it was; the
\* registry never holds two descriptors under one key.
C1_NoDuplicateKey ==
    /\ \A i, j \in 1..Len(all_app_commands) :
          all_app_commands[i].meta = all_app_commands[j].meta => i = j
    /\ ret.op = "add" =>
          /\ (KeysOfCall(ret.name, ret.type, ret.guild_ids) \cap Keys(ret.before) # {}
                 => ret.exc = "CommandRegistrationError")
          /\ \A m \in Keys(ret.before) :
                 DictGet(all_app_commands, m) = DictGet(ret.before, m)

C1_Witness ==
    /\ ret.op = "add"
    /\ ret.exc = "CommandRegistrationError"
    /\ KeysOfCall(ret.name, ret.type, ret.guild_ids) \cap Keys(ret.before) # {}

\* C2: get_app_command and its wrappers return the command registered under the
\* requested (name, type, scope) key, and None when the key is not registered.
C2_GetAfterAdd ==
    ret.op = "get" => ret.exc = "" /\ ret.val = ret.registered

\* C3: removing a key that is not registered returns None, raises nothing and
\* leaves the registry unchanged; removing a registered key returns its command and
\* deletes that key and no other.
C3_Remove ==
    ret.op = "remove" =>
        LET meta == AppCommandMetadata(ret.name, ret.guild_ids[1], ret.type)
        IN /\ ret.exc = ""
           /\ ret.val = DictGet(ret.before, meta)
           /\ Keys(all_app_commands) = Keys(ret.before) \ {meta}
           /\ \A m \in Keys(all_app_commands) :
                  DictGet(all_app_commands, m) = DictGet(ret.before, m)
           /\ meta \notin Keys(ret.before) =>
                  ret.val = <<>> /\ all_app_commands = ret.before

C3_Witness ==
    /\ ret.op = "remove"
    /\ ret.val # <<>>
    /\ Len(all_app_commands) >= 1
    /\ Len(ret.before) = Len(all_app_commands) + 1

C3_WitnessMissing ==
    /\ ret.op = "remove"
    /\ ret.val = <<>>
    /\ Len(all_app_commands) >= 1

-----------------------------------------------------------------------------
(* Diff and synchronizer claims, checked under Spec.  `obs` holds, scope by  *)
(* scope, what the pass computed in the step just taken.                     *)

UniqueKeys(seq) == \A i, j \in 1..Len(seq) : KeyOf(seq[i]) = KeyOf(seq[j]) => i = j

Buckets == {"no_changes", "upsert", "edit", "delete"}

BucketsOf(d, k) == {b \in Buckets : k \in KeySet(d[b])}

RemoteOf(rec, c) == Counterpart(rec.old, KeyOf(c))

\* the bucket the classification rule gives a local command
Expected(rec, c) ==
    IF KeyOf(c) \notin KeySet(rec.old) THEN "upsert"
    ELSE IF c.always_synced THEN "no_changes"
    ELSE IF c.desc # RemoteOf(rec, c).desc THEN "edit"
    ELSE "no_changes"

\* C4: for local and remote sets each uniquely keyed by (name, type), every local
\* command is classified upsert / no_changes (always synced) / edit / no_changes by
\* the rule above, every remote-only command is classified delete, and every key of
\* either side is in exactly one bucket, once.
C4_DiffClassification ==
    \A n \in 1..Len(obs) :
        LET rec == obs[n]
            d == rec.raw
        IN UniqueKeys(rec.new) /\ UniqueKeys(rec.old) =>
              /\ \A i \in 1..Len(rec.new) :
                    BucketsOf(d, KeyOf(rec.new[i])) = {Expected(rec, rec.new[i])}
              /\ \A i \in 1..Len(rec.old) :
                    KeyOf(rec.old[i]) \notin KeySet(rec.new)
                        => BucketsOf(d, KeyOf(rec.old[i])) = {"delete"}
              /\ \A b \in Buckets : UniqueKeys(d[b])
              /\ KeySet(d.no_changes) \cup KeySet(d.upsert) \cup KeySet(d.edit)
                     \cup KeySet(d.delete) = KeySet(rec.new) \cup KeySet(rec.old)

C4_Witness ==
    \E n \in 1..Len(obs) :
        /\ UniqueKeys(obs[n].new) /\ UniqueKeys(obs[n].old)
        /\ obs[n].raw.edit # <<>>
        /\ obs[n].raw.delete # <<>>
        /\ Len(obs[n].new) = 2

C4_WitnessUpsert ==
    \E n \in 1..Len(obs) :
        /\ UniqueKeys(obs[n].new) /\ UniqueKeys(obs[n].old)
        /\ obs[n].raw.upsert # <<>>
        /\ obs[n].raw.no_changes # <<>>

\* C5: with allow_command_deletion off, in every scope of every pass the delete
\* bucket is empty after the policy hook, and a push keeps every remote command
\* that has no local counterpart.
C5_DeletionDisabled ==
    ~command_sync.allow_command_deletion =>
        \A n \in 1..Len(obs) :
            /\ obs[n].diff.delete = <<>>
            /\ obs[n].update_required =>
                  \A i \in 1..Len(obs[n].old) :
                      KeyOf(obs[n].old[i]) \notin KeySet(obs[n].new) =>
                          \E j \in 1..Len(obs[n].to_send) :
                              obs[n].to_send[j] = Payload(obs[n].old[i])

\* the sets are element-wise structurally equal
ElementwiseEqual(rec) ==
    /\ UniqueKeys(rec.new) /\ UniqueKeys(rec.old)
    /\ KeySet(rec.new) = KeySet(rec.old)
    /\ \A i \in 1..Len(rec.new) : rec.new[i].desc = RemoteOf(rec, rec.new[i]).desc

\* C6: a scope whose local and remote sets are element-wise structurally equal is
\* classified entirely no_changes, needs no update, and no bulk overwrite of that
\* scope is awaited.
C6_ZeroDiffZeroWrites ==
    \A n \in 1..Len(obs) :
        ElementwiseEqual(obs[n]) =>
            /\ obs[n].raw.upsert = <<>> /\ obs[n].raw.edit = <<>> /\ obs[n].raw.delete = <<>>
            /\ Len(obs[n].raw.no_changes) = Len(obs[n].new)
            /\ ~obs[n].update_required
            /\ \A i \in 1..Len(tasks) :
                  tasks[i].pc = "push" => tasks[i].scope # obs[n].scope

C6_Witness ==
    \E n \in 1..Len(obs) :
        /\ ElementwiseEqual(obs[n])
        /\ obs[n].new # <<>>
        /\ \A i \in 1..Len(tasks) : tasks[i].pc # "push"

\* C7 as stated: a pass that follows another pass with no change to the registry
\* in between awaits no push.
C7_SecondRunNoPush ==
    \A i \in 1..Len(tasks) : tasks[i].succ # "no" => tasks[i].pc # "push"

\* C7: a pass that follows, with no change to the registry in between, a pass none
\* of whose pushes failed awaits no push.
C7_SecondRunNoPushAfterSuccess ==
    \A i \in 1..Len(tasks) :
        tasks[i].succ \in {"after_pushed", "after_quiet"} => tasks[i].pc # "push"

C7_Witness ==
    \E i \in 1..Len(tasks) :
        /\ tasks[i].succ = "after_pushed"
        /\ tasks[i].pc = "done"
        /\ all_app_commands # <<>>

\* C8: every command declared with auto_sync off carries the always-synced marker
\* in a pass; a marked command with a remote counterpart is classified no_changes
\* whatever the difference between the two, and an update is required only when
\* something else is to be created, deleted or edited.
C8_AlwaysSynced ==
    \A n \in 1..Len(obs) :
        LET rec == obs[n]
        IN /\ \A i \in 1..Len(rec.new) :
                 ~cmds[rec.new[i].ref].auto_sync => rec.new[i].always_synced
           /\ UniqueKeys(rec.new) =>
                 \A i \in 1..Len(rec.new) :
                     rec.new[i].always_synced /\ KeyOf(rec.new[i]) \in KeySet(rec.old)
                         => BucketsOf(rec.raw, KeyOf(rec.new[i])) = {"no_changes"}
           /\ UniqueKeys(rec.new) /\ rec.update_required =>
                 \/ rec.diff.upsert # <<>>
                 \/ rec.diff.delete # <<>>
                 \/ \E j \in 1..Len(rec.diff.edit) : ~rec.diff.edit[j].always_synced

C8_Witness ==
    \E n \in 1..Len(obs) :
        /\ UniqueKeys(obs[n].new)
        /\ ~obs[n].update_required
        /\ \E i \in 1..Len(obs[n].new) :
              /\ obs[n].new[i].always_synced
              /\ KeyOf(obs[n].new[i]) \in KeySet(obs[n].old)
              /\ obs[n].new[i].desc # RemoteOf(obs[n], obs[n].new[i]).desc

\* the names of the commands of seq
NamesOf(seq) == {seq[i].name : i \in 1..Len(seq)}

\* C17: when no local command shares its name with a remote command, the diff puts
\* every local command into upsert and every remote command into delete, nothing
\* else into either, and leaves edit and no_changes empty.
C17_DisjointNames ==
    \A n \in 1..Len(obs) :
        LET rec == obs[n]
            d == rec.raw
        IN NamesOf(rec.new) \cap NamesOf(rec.old) = {} =>
              /\ KeySet(d.upsert) = KeySet(rec.new)
              /\ Len(d.upsert) = Cardinality(KeySet(rec.new))
              /\ KeySet(d.delete) = KeySet(rec.old)
              /\ Len(d.delete) = Cardinality(KeySet(rec.old))
              /\ d.edit = <<>>
              /\ d.no_changes = <<>>

\* a scope whose local and remote sets are both non-empty and share no name
C17_Witness ==
    \E n \in 1..Len(obs) :
        /\ obs[n].new # <<>>
        /\ obs[n].old # <<>>
        /\ NamesOf(obs[n].new) \cap NamesOf(obs[n].old) = {}
        /\ obs[n].raw.upsert = obs[n].new
        /\ obs[n].raw.delete = obs[n].old

\* no pass is between its first line and its return
NoPassInProgress == \A i \in 1..Len(tasks) : tasks[i].pc # "push"

\* C15: a fetch or a bulk overwrite that fails for one scope stops nothing: while a
\* pass awaits a push, every scope it has to handle is diffed already or still in
\* its loop; when it has returned it has diffed every scope and awaited a bulk
\* overwrite for every scope that required an update, whatever failed before; a
\* failed bulk overwrite leaves only a warning for its scope.
C15_FailureIsolation ==
    /\ \A i \in 1..Len(tasks) :
          tasks[i].pc = "push" =>
              /\ hist.todo \subseteq
                     hist.diffed \cup {tasks[i].rest[k].guild_id : k \in 1..Len(tasks[i].rest)}
              /\ hist.need = hist.pushed
    /\ (NoPassInProgress /\ hist.prev # "none") =>
          /\ hist.diffed = hist.todo
          /\ hist.need = hist.pushed
          /\ hist.warned \subseteq hist.pushed
          /\ (hist.prev = "failed") = (hist.warned # {})

\* a pass has returned whose global bulk overwrite raised and which afterwards
\* diffed guild 7 and awaited its bulk overwrite
C15_Witness ==
    /\ NoPassInProgress
    /\ hist.prev = "failed"
    /\ None \in hist.warned
    /\ "7" \in hist.pushed

\* the preparation pass has returned after the global fetch failed, and has
\* diffed and pushed guild 7
C15_WitnessFetch ==
    /\ NoPassInProgress
    /\ tasks[1].pc = "done"
    /\ Len(tasks) = 1
    /\ None \in hist.ffail
    /\ "7" \in hist.pushed

\* C16: a scope whose fetch failed is left alone by the preparation pass: that pass
\* awaits no bulk overwrite for it.
C16_FetchFailureAbandonsScope ==
    tasks[1].pc = "push" => tasks[1].scope \notin hist.ffail

\* seq has no element twice
NoRepeat(seq) == \A i, j \in 1..Len(seq) : seq[i] = seq[j] => i = j

\* the delete bucket of the scope was moved into no_changes
Reclassified(rec) == rec.raw.delete # <<>> /\ rec.diff.delete = <<>>

\* C22: a scope whose diff requires an update gets one bulk overwrite in the pass,
\* no scope gets two, and the list sent is no_changes, then edit, then upsert: one
\* entry for every local command of the scope, and one for every remote-only
\* command exactly when the delete bucket was moved into no_changes.
C22_OnePushWithFullList ==
    /\ NoRepeat(hist.pushseq)
    /\ {hist.pushseq[n] : n \in 1..Len(hist.pushseq)} = hist.need
    /\ \A n \in 1..Len(obs) :
          LET rec == obs[n]
              l == rec.diff.no_changes \o rec.diff.edit \o rec.diff.upsert
          IN rec.update_required =>
                /\ \E i \in 1..Len(tasks) :
                      /\ tasks[i].pc = "push"
                      /\ tasks[i].scope = rec.scope
                      /\ tasks[i].to_send = rec.to_send
                /\ n = Len(obs)
                /\ rec.to_send = [k \in 1..Len(l) |->
                                     [name |-> l[k].name, type |-> l[k].type,
                                      desc |-> l[k].desc]]
                /\ UniqueKeys(rec.to_send)
                /\ KeySet(rec.to_send) =
                      KeySet(rec.new) \cup (IF Reclassified(rec) THEN KeySet(rec.old) ELSE {})

\* a push of a scope with an unchanged, an edited and no new command, whose
\* remote-only command was moved into no_changes and is sent along
C22_Witness ==
    \E n \in 1..Len(obs) :
        /\ obs[n].update_required
        /\ Reclassified(obs[n])
        /\ Len(obs[n].to_send) = 2
        /\ obs[n].diff.edit # <<>>
        /\ \E i \in 1..Len(tasks) : tasks[i].pc = "push" /\ tasks[i].to_send = obs[n].to_send

\* a pass that has pushed the global scope and then a guild scope
C22_WitnessTwoScopes ==
    /\ hist.pushseq = <<None, "7">>
    /\ NoPassInProgress

-----------------------------------------------------------------------------
(* Scheduler claims, checked under SpecSched.                                *)

\* task i is inside a synchronization run: the fetches of the initial run, or a
\* pass suspended at a push
InRun(i) == tasks[i].pc \in {"fetch_global", "fetch_guild", "push"}

\* C9: whatever the interleaving of the initial task, the delayed tasks and the
\* registrations, at most one task is inside a synchronization run, and
\* _sync_queued is set while it is.
C9_MutualExclusion ==
    /\ \A i, j \in 1..Len(tasks) : InRun(i) /\ InRun(j) => i = j
    /\ \A i \in 1..Len(tasks) : InRun(i) => sync_queued

C9_Witness ==
    \E i, j \in 1..Len(tasks) :
        /\ i > 1 /\ j > 1 /\ i # j
        /\ tasks[i].pc = "push"
        /\ tasks[j].pc = "done"

\* two or more events fell into the first debounce window after ready, the window
\* is over, nothing was scheduled after it, every task of the window has ended and
\* no synchronization is in progress or pending
Settled ==
    /\ hist.nev >= 2
    /\ hist.win = "over"
    /\ ~hist.late
    /\ ~sync_queued
    /\ \A i \in 1..Len(tasks) : tasks[i].inwin => tasks[i].pc = "done"

PrepRank(pc) ==
    CASE pc = "created" -> 0
      [] pc = "wait_first_connect" -> 1
      [] pc = "fetch_global" -> 2
      [] pc = "fetch_guild" -> 3
      [] pc = "push" -> 4
      [] pc = "done" -> 5

\* C18: the preparation task fetches, diffs and pushes only once the first connect
\* has happened; no other task ever waits for the connect or fetches; and the
\* preparation task only moves forward through its pass, so the initial pass is
\* begun once and, once over, never begun again.
C18_InitialSyncOnce ==
    /\ [](/\ PrepRank(tasks[1].pc) >= 2 => first_connect
          /\ \A i \in 2..Len(tasks) :
                tasks[i].pc \notin {"wait_first_connect", "fetch_global", "fetch_guild"})
    /\ [][PrepRank(tasks'[1].pc) >= PrepRank(tasks[1].pc)]_vars

\* the initial pass is over and a delayed pass awaits its push
C18_Witness ==
    /\ first_connect
    /\ tasks[1].pc = "done"
    /\ \E i \in 2..Len(tasks) : tasks[i].pc = "push"

-----------------------------------------------------------------------------
(* Configuration claims, checked under SpecFlags.                            *)

\* C11: with sync_commands off no task ever awaits a bulk overwrite, the platform
\* keeps what it held, and a delayed sync neither sets _sync_queued nor sleeps:
\* the flag is set only while the preparation task has not finished.
C11_SyncDisabledNoOp ==
    ~command_sync.sync_commands =>
        /\ \A i \in 1..Len(tasks) : tasks[i].pc # "push"
        /\ \A i \in 2..Len(tasks) : tasks[i].pc \in {"created", "done"}
        /\ sync_queued => tasks[1].pc # "done"
        /\ \A s \in {None, "7"} : remote[s] = <<RemoteA2(s), RemoteB(s)>>

C11_Witness ==
    /\ ~command_sync.sync_commands
    /\ ready /\ ~is_closed
    /\ all_app_commands # <<>>
    /\ tasks[1].pc = "done"
    /\ Len(tasks) > 1
    /\ \A i \in 2..Len(tasks) : tasks[i].pc = "done"

-----------------------------------------------------------------------------
(* Check-list claims, checked under SpecChecks.  `ret` holds the call made  *)
(* by the last step with its keyword flags and the lists as they were before.*)

\* the list l is one the call r names: its category flag is set and its kind
\* (check_once or not) is the one call_once asks for
Named(l, r) ==
    \/ l = "_slash_command_check_once" /\ r.slash_commands /\ r.call_once
    \/ l = "_slash_command_checks" /\ r.slash_commands /\ ~r.call_once
    \/ l = "_user_command_check_once" /\ r.user_commands /\ r.call_once
    \/ l = "_user_command_checks" /\ r.user_commands /\ ~r.call_once
    \/ l = "_message_command_check_once" /\ r.message_commands /\ r.call_once
    \/ l = "_message_command_checks" /\ r.message_commands /\ ~r.call_once

\* C19: remove_app_command_check never raises; when the check is in none of the
\* named lists every list is unchanged; a second identical removal changes
\* nothing more; and the lists the call does not name are untouched.
C19_RemoveIdempotent ==
    ret.op = "remove_check" =>
        /\ ret.exc = None
        /\ (\A l \in CheckLists : Named(l, ret) => ~Occurs(ret.before[l], ret.func))
               => checks = ret.before
        /\ RemoveCheck(checks, ret.func, ret.call_once, ret.slash_commands,
                       ret.user_commands, ret.message_commands) = checks
        /\ \A l \in CheckLists : ~Named(l, ret) => checks[l] = ret.before[l]

\* C20: add_app_command_check appends the check to exactly the lists named by
\* the category flags and call_once and leaves every other list as it was; with
\* no category flag set no list changes.
C20_AddFrame ==
    ret.op = "add_check" =>
        /\ \A l \in CheckLists :
              checks[l] = IF Named(l, ret) THEN Append(ret.before[l], ret.func)
                          ELSE ret.before[l]
        /\ (~ret.slash_commands /\ ~ret.user_commands /\ ~ret.message_commands)
               => checks = ret.before

\* an add naming two categories, made when lists it does not name hold checks
C20_Witness ==
    /\ ret.op = "add_check"
    /\ ret.slash_commands /\ ret.user_commands /\ ~ret.message_commands /\ ret.call_once
    /\ ret.before["_slash_command_checks"] # <<>>
    /\ ret.before["_message_command_check_once"] # <<>>
    /\ checks["_slash_command_check_once"] = <<"p", "p">>

\* an add with no category flag, made when lists hold checks
C20_WitnessNoFlag ==
    /\ ret.op = "add_check"
    /\ ~ret.slash_commands /\ ~ret.user_commands /\ ~ret.message_commands
    /\ ret.before["_slash_command_checks"] # <<>>

-----------------------------------------------------------------------------
(* Dispatcher claims, checked under SpecDispatch.  `ret` holds the event the *)
(* last step dispatched, what the lookups found and the log of what was done.*)

Dispatched == ret.op = "dispatch"

\* the log has an entry of kind k with result r
Logged(k, r) == \E n \in 1..Len(ret.log) : ret.log[n].k = k /\ ret.log[n].r = r

\* the log has an entry of kind k
Did(k) == \E n \in 1..Len(ret.log) : ret.log[n].k = k

\* the corrective branch as the claim describes it: the guild of the event is
\* overwritten with the empty list, the notice is sent, nothing else is done
CorrectiveOnly ==
    /\ Len(ret.log) = 2
    /\ ret.log[1].k = "bulk_overwrite_guild_commands" /\ ret.log[1].name = ret.guild_id
    /\ ret.log[1].r = "ok" => remote[ret.guild_id] = <<>>
    /\ ret.log[2].k = "send_message"
    /\ ret.exc = None

\* C12: an event whose id matches no command of the registry, received while no
\* sync is in progress, gets the corrective clear of its guild and the notice;
\* no command is invoked and nothing is raised.
C12_UnmatchedIdCorrected ==
    (Dispatched /\ ret.app_command = <<>> /\ ~sync_queued) => CorrectiveOnly

\* C12, amended: the corrective clear and the notice are what an event gets whose
\* id is in neither the cached global snapshot nor the cached snapshot of its
\* guild, while sync is enabled and not in progress; otherwise an event whose id
\* matches no command of the registry is ignored: nothing is done or raised.
C12_UncachedIdCorrected ==
    Dispatched =>
        IF command_sync.sync_commands /\ ~sync_queued /\ ~ret.known
        THEN CorrectiveOnly
        ELSE ret.app_command = <<>> => (ret.log = <<>> /\ ret.exc = None)

\* guild 7 holds a command the bot never fetched; an event for it clears guild 7
C12_Witness ==
    /\ Dispatched
    /\ command_sync.sync_commands /\ ~sync_queued /\ ~ret.known
    /\ tasks[1].pc = "done"
    /\ ret.id = <<"7", "a", chat_input>> /\ ret.guild_id = "7"
    /\ ret.log[1].r = "ok"
    /\ all_app_commands # <<>>

\* after a sync, an event for a cached command the registry does not hold
C12_WitnessIgnored ==
    /\ Dispatched
    /\ command_sync.sync_commands /\ ~sync_queued /\ ret.known
    /\ tasks[1].pc = "done"
    /\ all_app_commands # <<>>
    /\ ret.app_command = <<>>
    /\ ret.log = <<>>

\* C13: a failing call-once check (one returning false or raising a command
\* error) and a command error raised by the invocation end in dispatch_error of
\* the matched command with that error (CheckFailure for a check returning
\* false), and no command error ever leaves process_application_commands.
C13_CommandErrorRouted ==
    Dispatched =>
        /\ ret.exc \notin CommandErrors
        /\ (Logged("check", "fail") \/ Logged("check", "CommandError")
                \/ Logged("invoke", "CommandError")) =>
              /\ ret.exc = None
              /\ ret.log[Len(ret.log)] =
                    Entry("dispatch_error", "", ret.app_command[1],
                          IF Logged("check", "fail") THEN "CheckFailure" ELSE "CommandError")
              /\ ~Did("completion")
              /\ Logged("check", "fail") \/ Logged("check", "CommandError") => ~Did("invoke")

\* the second call-once check returned false
C13_Witness ==
    /\ Dispatched
    /\ Len(ret.log) = 4
    /\ ret.log[2] = Entry("check", "p", 0, "pass")
    /\ ret.log[3] = Entry("check", "q", 0, "fail")
    /\ ret.log[4].k = "dispatch_error"

\* the invocation raised a command error after the checks passed
C13_WitnessInvoke ==
    /\ Dispatched
    /\ Logged("check", "pass")
    /\ Logged("invoke", "CommandError")
    /\ Logged("dispatch_error", "CommandError")

\* C14: an error outside the command-error taxonomy, raised by a call-once check
\* or by the invocation, leaves process_application_commands: dispatch_error is
\* not called and the completion event is not dispatched.
C14_OtherErrorPropagates ==
    (Dispatched /\ (Logged("check", "Exception") \/ Logged("invoke", "Exception"))) =>
        /\ ret.exc = "Exception"
        /\ ~Did("dispatch_error")
        /\ ~Did("completion")
        /\ ret.log[Len(ret.log)].r = "Exception"

\* the invocation raised such an error after a call-once check passed
C14_Witness ==
    /\ Dispatched
    /\ Logged("check", "pass")
    /\ Logged("invoke", "Exception")
    /\ ret.exc = "Exception"

\* a call-once check raised such an error
C14_WitnessCheck ==
    /\ Dispatched
    /\ Logged("check", "Exception")
    /\ ~Did("invoke")
    /\ ret.exc = "Exception"

\* the call-once checks in force for the event of the last step
OnceList == checks[CheckListOf(ret.type, TRUE)]

\* the position of the first entry of kind k in the log, 0 if there is none
Pos(k) ==
    IF Did(k) THEN CHOOSE n \in 1..Len(ret.log) :
                      ret.log[n].k = k /\ \A j \in 1..(n - 1) : ret.log[j].k # k
    ELSE 0

\* the number of entries of kind k in the log
Count(k) == Cardinality({n \in 1..Len(ret.log) : ret.log[n].k = k})

\* C21: for a matched command the log begins with the pre-invocation event; the
\* call-once checks of the event's category follow, in list order, up to the first
\* that does not pass; the command is invoked, once and after them, exactly when
\* all of them passed; the completion event follows the invocation exactly when
\* it returned without error; and a check that returns false leaves no invocation,
\* no completion event, and dispatch_error with CheckFailure as the last entry.
C21_DispatchOrdering ==
    (Dispatched /\ Did("event")) =>
        LET m == Count("check")
        IN /\ ret.log[1] = Entry("event", EventName(ret.type), 0, None)
           /\ Count("event") = 1
           /\ m <= Len(OnceList)
           /\ \A n \in 1..m : /\ ret.log[1 + n].k = "check"
                              /\ ret.log[1 + n].name = OnceList[n]
                              /\ n < m => ret.log[1 + n].r = "pass"
           /\ Did("invoke") = (m = Len(OnceList) /\ ~Logged("check", "fail")
                                 /\ ~Logged("check", "CommandError")
                                 /\ ~Logged("check", "Exception"))
           /\ Did("invoke") => /\ Pos("invoke") = 2 + m
                               /\ Count("invoke") = 1
                               /\ ret.log[2 + m].cmd = ret.app_command[1]
           /\ Did("completion") = Logged("invoke", "ok")
           /\ Did("completion") =>
                 /\ Pos("completion") = 3 + m
                 /\ Len(ret.log) = 3 + m
                 /\ ret.log[3 + m].name = EventName(ret.type)
           /\ Logged("check", "fail") =>
                 /\ ~Did("invoke") /\ ~Did("completion")
                 /\ ret.log[Len(ret.log)] =
                       Entry("dispatch_error", "", ret.app_command[1], "CheckFailure")

\* both call-once checks passed, the command ran and the completion event went out
C21_Witness ==
    /\ Dispatched
    /\ OnceList = <<"p", "q">>
    /\ Len(ret.log) = 5
    /\ ret.log[4] = Entry("invoke", "", ret.app_command[1], "ok")
    /\ ret.log[5].k = "completion"

\* the first of two call-once checks returned false: the second was not evaluated
C21_WitnessShortCircuit ==
    /\ Dispatched
    /\ OnceList = <<"p", "q">>
    /\ Len(ret.log) = 3
    /\ ret.log[2] = Entry("check", "p", 0, "fail")
    /\ ret.log[3].k = "dispatch_error"

-----------------------------------------------------------------------------
(* Ordering claims, checked under SpecOrder.                                 *)

\* the guilds the command of registry entry i is handled in
GuildIdsAt(i) ==
    IF cmds[all_app_commands[i].cmd].guild_ids # <<>>
    THEN cmds[all_app_commands[i].cmd].guild_ids
    ELSE IF test_guilds.is_none THEN <<>> ELSE test_guilds.ids

\* guild g1 is met before guild g2 when the registry is read in registration
\* order, each command's guilds in the order it declares them
RegisteredBefore(g1, g2) ==
    \E i \in 1..Len(all_app_commands) : \E k \in 1..Len(GuildIdsAt(i)) :
        /\ GuildIdsAt(i)[k] = g1
        /\ \A j \in 1..i : \A l \in 1..Len(GuildIdsAt(j)) :
              (j < i \/ l <= k) => GuildIdsAt(j)[l] # g2

\* the scopes of seq are in the order of a pass: the global scope first, the
\* guilds in registration order, none twice
InPassOrder(seq) ==
    \A i, j \in 1..Len(seq) :
        i < j => /\ seq[j] # None
                 /\ seq[i] # seq[j]
                 /\ seq[i] # None => RegisteredBefore(seq[i], seq[j])

RemoteOps == {"fetch_global", "fetch_guild", "push"}

\* C23: the global scope has been fetched, diffed and, where needed, pushed before
\* any remote operation for a guild scope begins: no guild fetch is awaited before
\* the global scope has been diffed.
C23_GlobalBeforeGuilds ==
    tasks[1].pc = "fetch_guild" => (hist.diffseq # <<>> /\ hist.diffseq[1] = None)

\* C23, amended: a pass has one remote operation in flight at a time; the fetches
\* of the preparation pass all come before its diffs, the global one first and
\* the guild ones in registration order; the scopes are then diffed, and pushed
\* where needed, global first and the guilds in registration order, and while a
\* push is awaited its scope is the last one diffed.
C23_PassOrder ==
    /\ Cardinality({i \in 1..Len(tasks) : tasks[i].pc \in RemoteOps}) <= 1
    /\ tasks[1].pc \in {"fetch_global", "fetch_guild"} => hist.diffseq = <<>>
    /\ tasks[1].pc = "fetch_guild" => InPassOrder(tasks[1].fguilds)
    /\ InPassOrder(hist.diffseq)
    /\ InPassOrder(hist.pushseq)
    /\ \A i \in 1..Len(tasks) :
          tasks[i].pc = "push" =>
              /\ hist.diffseq[Len(hist.diffseq)] = tasks[i].scope
              /\ hist.pushseq[Len(hist.pushseq)] = tasks[i].scope

\* a pass over a registry whose first command declares guild 8 before guild 7
\* has pushed the global scope, then guild 8, and awaits the push of guild 7
C23_Witness ==
    /\ hist.diffseq = <<None, "8", "7">>
    /\ hist.pushseq = <<None, "8", "7">>
    /\ \E i \in 1..Len(tasks) : tasks[i].pc = "push" /\ tasks[i].scope = "7"

\* the preparation task awaits the fetch of guild 7, the fetch of guild 8, which
\* the first command declares first, being over
C23_WitnessFetch ==
    /\ tasks[1].pc = "fetch_guild"
    /\ tasks[1].fguilds = <<"7">>
    /\ GuildIdsAt(1) = <<"8", "7">>

\* C24: every scope a pass diffs has been fetched during that pass.
C24_DiffAgainstFetched ==
    \A n \in 1..Len(hist.diffseq) : hist.diffseq[n] \in hist.fetched

\* C24, amended: the preparation pass diffs a scope whose fetch returned against
\* what the platform holds, its fetches being over before its first diff; a scope
\* whose fetch raised, or that was not fetched because no command declared it
\* when the fetches began, is diffed against the snapshot cached before, which is
\* empty at start-up; a delayed pass fetches nothing.
C24_InitialPassFetches ==
    /\ tasks[1].pc \in {"fetch_global", "fetch_guild"} => hist.diffseq = <<>>
    /\ hist.initial =>
          /\ \A n \in 1..Len(obs) :
                obs[n].scope \in hist.fetched => obs[n].old = remote[obs[n].scope]
          /\ \A n \in 1..Len(obs) :
                obs[n].scope \notin hist.fetched => obs[n].old = <<>>
    /\ (~hist.initial /\ hist.diffseq # <<>>) => hist.fetched = {}
    /\ \A i \in 2..Len(tasks) : tasks[i].pc \notin {"fetch_global", "fetch_guild"}

\* the preparation pass diffs guild 7 against the snapshot it fetched for it
C24_Witness ==
    /\ hist.initial
    /\ \E n \in 1..Len(obs) :
          /\ obs[n].scope = "7"
          /\ "7" \in hist.fetched
          /\ obs[n].old # <<>>
          /\ obs[n].old = remote["7"]

\* a delayed pass diffs a scope against a cached snapshot that is not what the
\* platform holds
C24_WitnessDelayed ==
    /\ ~hist.initial
    /\ \E n \in 1..Len(obs) : obs[n].old # remote[obs[n].scope]

-----------------------------------------------------------------------------
(* ID back-fill, checked under SpecOrder.                                   *)

\* the step in which a pass ends: the flag is cleared right after the back-fill
\* (lines 935-936 and 984-985, no await in between)
FillStep == sync_queued /\ ~sync_queued'

\* the cached remote commands in the order the back-fill visits them: the
\* global snapshot, then each guild snapshot
RECURSIVE GuildCached(_)
GuildCached(guc) ==
    IF guc = <<>> THEN <<>>
    ELSE [n \in 1..Len(Head(guc).cmds) |->
             [scope |-> Head(guc).guild_id, c |-> Head(guc).cmds[n]]]
         \o GuildCached(Tail(guc))

Cached(gac, guc) == [n \in 1..Len(gac) |-> [scope |-> None, c |-> gac[n]]] \o GuildCached(guc)

\* the ids of the cached remote commands whose name and scope are those of the
\* first registry entry of that name and scope, when that entry is descriptor k
MatchSeq(reg, k, all) ==
    LET hits == SelectSeq(all, LAMBDA x : \E n \in 1..Len(reg) :
                     /\ reg[n].cmd = k
                     /\ reg[n].meta.name = x.c.name
                     /\ reg[n].meta.guild_id = x.scope
                     /\ \A m \in 1..(n - 1) :
                           ~(reg[m].meta.name = x.c.name /\ reg[m].meta.guild_id = x.scope))
    IN [n \in 1..Len(hits) |-> hits[n].c.id]

\* the ids of the cached remote commands that share name and scope with any
\* registry entry of descriptor k
MatchIds(reg, k, all) ==
    {all[n].c.id : n \in {n \in 1..Len(all) : \E e \in 1..Len(reg) :
                             /\ reg[e].cmd = k
                             /\ reg[e].meta.name = all[n].c.name
                             /\ reg[e].meta.guild_id = all[n].scope}}

C25_Step ==
    LET all == Cached(global_application_commands', guild_application_commands')
    IN /\ \A k \in DOMAIN cmds :
             (cmds[k].id = <<>> /\ cmds'[k].id # <<>>) =>
                /\ FillStep
                /\ cmds'[k].id \in MatchIds(all_app_commands, k, all)
       /\ FillStep =>
             /\ \A i \in 1..Len(tasks) : tasks'[i].pc # "push"
             /\ \E i \in 1..Len(tasks) :
                   /\ tasks[i].pc # "done" /\ tasks'[i].pc = "done"
                   /\ tasks'[i].rest = <<>>
             /\ \A k \in DOMAIN cmds :
                   MatchIds(all_app_commands, k, all) = {} /\ cmds[k].id = <<>>
                      => cmds'[k].id = <<>>
       /\ (FillStep /\ tasks[1].pc # "fetch_global") =>
             \A k \in DOMAIN cmds :
                cmds'[k].id =
                   IF cmds[k].id # <<>> THEN cmds[k].id
                   ELSE IF MatchSeq(all_app_commands, k, all) = <<>> THEN <<>>
                   ELSE MatchSeq(all_app_commands, k, all)[1]

\* C25: ids are assigned only in the step that ends a pass, after its last scope
\* was processed and together with the clearing of the sync-in-progress flag;
\* the id a descriptor receives is that of a cached remote command with the name
\* and scope of one of its registry entries (the first such command in cache
\* order); an id that is already set is kept, and a descriptor that no cached
\* remote command matches stays without an id
C25_BackFill == [][C25_Step]_vars

\* a pass has ended with a descriptor registered in two guilds whose cached
\* snapshots both hold a command of its name: it has the id of the first
C25_Witness ==
    /\ ~sync_queued
    /\ \E i \in 1..Len(tasks) : tasks[i].pc = "done"
    /\ \E k \in DOMAIN cmds :
          LET ms == MatchSeq(all_app_commands, k,
                             Cached(global_application_commands, guild_application_commands))
          IN /\ Len(ms) >= 2
             /\ ms[1] # ms[2]
             /\ cmds[k].id = ms[1]

\* a pass has ended and left a descriptor without an id: no cached remote command
\* has its name and scope
C25_WitnessOrphan ==
    /\ ~sync_queued
    /\ \E i \in 1..Len(tasks) : tasks[i].pc = "done"
    /\ \E k \in Refs(all_app_commands) :
          /\ cmds[k].id = <<>>
          /\ MatchIds(all_app_commands, k,
                      Cached(global_application_commands, guild_application_commands)) = {}
          /\ global_application_commands # <<>>

-----------------------------------------------------------------------------
(* Scheduler with the event loop's fairness: a task that can run its next   *)
(* step does run it, a sleep ends, and a remote call returns or raises.     *)
(* Whether and when the gateway connects, READY arrives or the client is    *)
(* closed is up to the host and the network.                                *)

InitLive ==
    /\ InitCommon
    /\ watch = "sync"
    /\ command_sync = DefaultFlags
    /\ test_guilds = [is_none |-> TRUE, ids |-> <<>>]
    /\ remote = [s \in Scopes |-> IF s = None THEN <<RemoteA1>> ELSE <<>>]

NextLive ==
    \/ \E g \in CtxGuildIdChoices : add_slash_command("a", g, TRUE)
    \/ connect
    \/ become_ready
    \/ close
    \/ prepare_start
    \/ prepare_connected
    \/ fetch_global_done
    \/ fetch_guild_done
    \/ schedule_delayed_command_sync
    \/ \E i \in 1..Len(tasks) : delayed_start(i)
    \/ \E i \in 1..Len(tasks) : delayed_wake(i)
    \/ \E i \in 1..Len(tasks) : push_done(i)

\* the steps of the tasks the loop runs
TaskStep(i) ==
    /\ i \in 1..Len(tasks)
    /\ \/ delayed_start(i)
       \/ delayed_wake(i)
       \/ push_done(i)

LoopFairness ==
    /\ WF_vars(prepare_start)
    /\ WF_vars(prepare_connected)
    /\ WF_vars(fetch_global_done)
    /\ WF_vars(fetch_guild_done)
    /\ \A i \in 1..(1 + MaxResync) : WF_vars(TaskStep(i))

SpecLive == InitLive /\ [][NextLive]_vars /\ LoopFairness

-----------------------------------------------------------------------------
(* Scheduler liveness, checked under SpecLive.                              *)

-----------------------------------------------------------------------------
(* Uniformity of the deletion toggle, checked under Spec.                   *)

\* the positions of the remote commands of a diffed scope that have no local
\* counterpart
RemoteOnly(rec) ==
    {i \in 1..Len(rec.old) : KeyOf(rec.old[i]) \notin KeySet(rec.new)}

\* C27: in every diffed scope, global or guild, the delete bucket after the
\* policy hook holds the remote-only commands when deletion is allowed and is
\* empty when it is not; a push drops the remote-only commands in the first
\* case and keeps them in the second.
C27_UniformPolicy ==
    \A n \in 1..Len(obs) :
        LET rec == obs[n]
        IN /\ Len(rec.diff.delete) =
                 IF command_sync.allow_command_deletion
                 THEN Cardinality(RemoteOnly(rec)) ELSE 0
           /\ rec.update_required =>
                 \A i \in RemoteOnly(rec) :
                     command_sync.allow_command_deletion <=>
                         ~\E j \in 1..Len(rec.to_send) :
                               rec.to_send[j] = Payload(rec.old[i])

-----------------------------------------------------------------------------
(* Scope partitioning of the diff, checked under Spec.                      *)

\* the descriptors that took part in a diff as local commands
LocalRefs(rec) == {rec.new[i].ref : i \in 1..Len(rec.new)}

\* the guild scopes of a descriptor: its own guild_ids, else the test guilds
ScopesOf(ref) ==
    IF cmds[ref].guild_ids # <<>>
    THEN {cmds[ref].guild_ids[k] : k \in 1..Len(cmds[ref].guild_ids)}
    ELSE {test_guilds.ids[k] : k \in 1..Len(test_guilds.ids)}

\* the registry holds the auto-synced slash command a without guilds and user
\* command b of guild 7, and the global diff ran against remote a (other
\* description) and a remote command without local counterpart
ExampleDiff(rec) ==
    /\ rec.scope = None
    /\ test_guilds.is_none
    /\ Len(all_app_commands) = 2
    /\ \E i, j \in 1..2 :
          /\ all_app_commands[i].meta = [name |-> "a", type |-> chat_input, guild_id |-> None]
          /\ all_app_commands[j].meta = [name |-> "b", type |-> user, guild_id |-> "7"]
          /\ cmds[all_app_commands[i].cmd].auto_sync
    /\ rec.old = <<RemoteA2(None), RemoteB(None)>>

\* C28: a descriptor declared for guilds is a local command of the diffs of
\* those guild scopes only, never of the global diff; without test guilds a
\* descriptor declared without guilds is a local command of the global diff only,
\* and the global diff takes every such descriptor.  In the example the global
\* diff is edit = [a], upsert = [], delete = [the remote-only command],
\* no_changes = [].
C28_ScopePartition ==
    \A n \in 1..Len(obs) :
        LET rec == obs[n]
        IN /\ \A ref \in LocalRefs(rec) :
                 IF rec.scope = None
                 THEN cmds[ref].guild_ids = <<>> /\ test_guilds.is_none
                 ELSE rec.scope \in ScopesOf(ref)
           /\ rec.scope = None =>
                 LocalRefs(rec) =
                    {ref \in Refs(all_app_commands) :
                        cmds[ref].guild_ids = <<>> /\ test_guilds.is_none}
           /\ ExampleDiff(rec) =>
                 /\ Len(rec.raw.edit) = 1 /\ rec.raw.edit[1].name = "a"
                 /\ rec.raw.upsert = <<>>
                 /\ rec.raw.delete = <<RemoteB(None)>>
                 /\ rec.raw.no_changes = <<>>

\* the global diff of the example was computed
C28_Witness == \E n \in 1..Len(obs) : ExampleDiff(obs[n])

\* a guild diff took a descriptor declared for that guild while a descriptor
\* without guilds is registered too
C28_WitnessGuild ==
    /\ test_guilds.is_none
    /\ \E n \in 1..Len(obs) :
          /\ obs[n].scope = "7"
          /\ LocalRefs(obs[n]) # {}
          /\ \E ref \in Refs(all_app_commands) : cmds[ref].guild_ids = <<>>

-----------------------------------------------------------------------------
(* application_command_can_run called on its own.                           *)

\* inter.data.type: one of the three categories, or a value that is none of them
EventTypes == Types \cup {"other"}

\* what a check does when called: it returns a truthy or a falsy value, or raises
CheckBehaviours == [Funcs -> {"pass", "fail", "Exception"}]

CanRunChecksOfBothCardinalities(lists, type, call_once) ==
    IF type \in Types
    THEN lists[CheckListOf(type, TRUE)] \o lists[CheckListOf(type, FALSE)]
    ELSE <<>>
\* lines 1278-1288: the list the if/elif chain selects; the else branch returns
\* True without a list
CanRunChecks(lists, type, call_once) ==
    IF type \in Types THEN lists[CheckListOf(type, call_once)] ELSE <<>>

\* application_command_can_run(inter, call_once=call_once), where the checks
\* behave as beh says
application_command_can_run(type, call_once, beh) ==
    /\ ret' = [op |-> "can_run", type |-> type, call_once |-> call_once, beh |-> beh,
               result |-> CanRun(CanRunChecks(checks, type, call_once), beh),
               log |-> Evaluated(CanRunChecks(checks, type, call_once), beh)]
    /\ obs' = <<>>
    /\ UNCHANGED config
    /\ UNCHANGED <<all_app_commands, cmds, hist>>
    /\ UNCHANGED <<sync_queued, global_application_commands,
                   guild_application_commands, remote, first_connect, ready,
                   is_closed, tasks>>

InitCanRun ==
    /\ InitCommon
    /\ watch = "can_run"
    /\ command_sync = DefaultFlags
    /\ test_guilds = [is_none |-> TRUE, ids |-> <<>>]
    /\ remote = [s \in Scopes |-> <<>>]

\* "p" and "q" are added to the slash command checks, "q" to the call-once slash
\* checks and to the user command checks, "p" to either message list
NextCanRun ==
    \/ \E f \in Funcs : add_app_command_check(f, FALSE, TRUE, FALSE, FALSE)
    \/ add_app_command_check("q", TRUE, TRUE, FALSE, FALSE)
    \/ add_app_command_check("q", FALSE, FALSE, TRUE, FALSE)
    \/ \E once \in BOOLEAN : add_app_command_check("p", once, FALSE, FALSE, TRUE)
    \/ \E t \in EventTypes, once \in BOOLEAN, beh \in CheckBehaviours :
          application_command_can_run(t, once, beh)

SpecCanRun == InitCanRun /\ [][NextCanRun]_vars

-----------------------------------------------------------------------------
(* application_command_can_run, checked under SpecCanRun.                   *)

\* the check list of a category and a call cardinality, by attribute name
ListNamed(type, call_once) ==
    IF type = chat_input /\ call_once THEN checks["_slash_command_check_once"]
    ELSE IF type = chat_input THEN checks["_slash_command_checks"]
    ELSE IF type = user /\ call_once THEN checks["_user_command_check_once"]
    ELSE IF type = user THEN checks["_user_command_checks"]
    ELSE IF type = message /\ call_once THEN checks["_message_command_check_once"]
    ELSE IF type = message THEN checks["_message_command_checks"]
    ELSE <<>>

\* C29: application_command_can_run returns True exactly when every check of
\* the list of the event's category and of call_once passes, in particular when
\* that list is empty or the type is none of the three categories, and every
\* check it evaluates is in that list.
C29_CanRun ==
    ret.op = "can_run" =>
        LET list == ListNamed(ret.type, ret.call_once)
        IN /\ ret.result = "True" <=> \A n \in 1..Len(list) : ret.beh[list[n]] = "pass"
           /\ ret.result \in {"True", "False", "Exception"}
           /\ (list = <<>> \/ ret.type \notin Types) => ret.result = "True" /\ ret.log = <<>>
           /\ \A n \in 1..Len(ret.log) : Occurs(list, ret.log[n].name)
           /\ Len(ret.log) <= Len(list)

\* a call returned True although a check that fails is registered, for the other
\* call cardinality of the same category and for another category
C29_Witness ==
    /\ ret.op = "can_run"
    /\ ret.type = chat_input /\ ~ret.call_once
    /\ ret.result = "True"
    /\ checks["_slash_command_checks"] = <<"p">>
    /\ Occurs(checks["_slash_command_check_once"], "q")
    /\ Occurs(checks["_user_command_checks"], "q")
    /\ ret.beh["q"] = "fail"

\* a call returned False: the second check of the selected list fails
C29_WitnessFalse ==
    /\ ret.op = "can_run"
    /\ ret.result = "False"
    /\ Len(ret.log) = 2

\* an event of none of the three categories can run, whatever is registered
C29_WitnessOther ==
    /\ ret.op = "can_run"
    /\ ret.type \notin Types
    /\ ret.result = "True"
    /\ checks["_slash_command_checks"] # <<>>
    /\ checks["_message_command_check_once"] # <<>>
    /\ \E n \in 1..Len(checks["_user_command_checks"]) :
          ret.beh[checks["_user_command_checks"][n]] = "fail"

-----------------------------------------------------------------------------
(* Delayed sync before ready or after close, checked under SpecSched.       *)

\* task i runs its first step
FirstStep(i) == tasks[i].pc = "created" /\ tasks'[i].pc # "created"

\* nothing of a pass happens in this step: the flag, the platform, the cached
\* snapshots and the descriptors are as before, and no task sleeps or awaits a
\* remote call that did not before
NothingDone ==
    /\ sync_queued' = sync_queued
    /\ remote' = remote
    /\ global_application_commands' = global_application_commands
    /\ guild_application_commands' = guild_application_commands
    /\ cmds' = cmds
    /\ \A j \in 1..Len(tasks) : tasks'[j].pc # tasks[j].pc => tasks'[j].pc = "done"

C30_Step ==
    \A i \in 2..Len(tasks) :
        (FirstStep(i) /\ (~ready \/ is_closed)) => NothingDone

\* a task scheduled after the client was closed has not set the flag, slept or
\* awaited a remote call
C30_AfterClose ==
    \A i \in 2..Len(tasks) : tasks[i].early = "closed" => tasks[i].pc \in {"created", "done"}

\* C30: a delayed sync whose task runs its first step while the client is not
\* ready or is closed does nothing: the flag is not set, the task does not sleep
\* and no remote call is made; a delayed sync scheduled after the client was
\* closed never does anything.
C30_SkippedSyncDoesNothing == []C30_AfterClose /\ [][C30_Step]_vars

\* C30 as stated: a delayed sync scheduled before ready or after close never
\* sets the flag, sleeps or awaits a remote call
C30_ScheduledEarlyDoesNothing ==
    \A i \in 2..Len(tasks) : tasks[i].early # "no" => tasks[i].pc \in {"created", "done"}

\* a delayed sync scheduled before ready has returned, the client still is not
\* ready and no sync is in progress
C30_Witness ==
    /\ ~ready /\ ~is_closed
    /\ ~sync_queued
    /\ \E i \in 2..Len(tasks) : tasks[i].early = "unready" /\ tasks[i].pc = "done"

\* a delayed sync scheduled after close has returned; no sync is in progress
C30_WitnessClosed ==
    /\ ready /\ is_closed
    /\ ~sync_queued
    /\ \E i \in 2..Len(tasks) : tasks[i].early = "closed" /\ tasks[i].pc = "done"

-----------------------------------------------------------------------------
(* Failed registration, checked under SpecRegistry.                         *)

\* C31: a call of add_*_command that raises CommandRegistrationError leaves the
\* registry exactly as it was before the call.
C31_FailedAddIsAtomic ==
    (ret.op = "add" /\ ret.exc = "CommandRegistrationError") =>
        all_app_commands = ret.before

-----------------------------------------------------------------------------
(* Back-fill and command types, checked under Spec.                         *)

\* the type of the remote command an id belongs to
TypeOfId(id) == id[3]

\* two registered descriptors share name and scope and differ in type, and the
\* cached snapshot of that scope holds a command for each
Twins(k1, k2) ==
    /\ k1 # k2
    /\ cmds[k1].name = cmds[k2].name
    /\ cmds[k1].type # cmds[k2].type
    /\ cmds[k1].guild_ids = <<>> /\ cmds[k2].guild_ids = <<>>
    /\ \A k \in {k1, k2} : \E n \in 1..Len(global_application_commands) :
          /\ global_application_commands[n].name = cmds[k].name
          /\ global_application_commands[n].type = cmds[k].type

\* C32: the id a registered descriptor holds is the id of a remote command of
\* its own name and type; once a pass is over, two descriptors that share name
\* and scope and differ in type each hold the id of the cached remote command of
\* their own type.
C32_FillRespectsType ==
    /\ \A k \in Refs(all_app_commands) :
          cmds[k].id # <<>> => TypeOfId(cmds[k].id) = cmds[k].type
    /\ (~sync_queued /\ test_guilds.is_none) =>
          \A k1, k2 \in Refs(all_app_commands) :
             (Twins(k1, k2) /\ \E i \in 1..Len(tasks) : tasks[i].pc = "done")
                => cmds[k1].id # <<>> /\ cmds[k2].id # <<>>

-----------------------------------------------------------------------------
(* Ids after a successful pass, checked under Spec.                         *)

\* the scheduler is idle, the preparation pass has run with every fetch
\* successful, the last pass had no failing push, and the registry has not
\* changed since that pass read it
CleanPassOver ==
    /\ ~sync_queued
    /\ tasks[1].pc = "done"
    /\ hist.ffail = {}
    /\ hist.prev = "ok"
    /\ ~hist.changed

\* C33: when the scheduler is idle again after a pass in which every fetch and
\* every push succeeded, every registered command has a remote id.
C33_IdsAfterCleanPass ==
    CleanPassOver => \A k \in Refs(all_app_commands) : cmds[k].id # <<>>

-----------------------------------------------------------------------------
(* Routing of events after a sync: a slash command b declared for guilds 8  *)
(* and 7 and a global slash command a, on a platform that holds nothing,    *)
(* and events that carry the ids the platform gives them, a forgotten id,   *)
(* and a data.type that may be none of the three categories.                *)

RouteIds ==
    {<<"7", "b", chat_input>>, <<"8", "b", chat_input>>, <<None, "a", chat_input>>,
     <<None, "z", chat_input>>}

\* interaction.data.type of an event for the command id
RouteTypes(id) == {id[3], "other"}

InitRoute ==
    /\ InitCommon
    /\ watch = "dispatch"
    /\ command_sync = DefaultFlags
    /\ test_guilds = [is_none |-> TRUE, ids |-> <<>>]
    /\ remote = [s \in Scopes |-> <<>>]

NextRoute ==
    \/ add_slash_command("b", <<"8", "7">>, TRUE)
    \/ add_slash_command("a", <<>>, TRUE)
    \/ /\ checks["_slash_command_check_once"] = <<>>
       /\ add_app_command_check("p", TRUE, TRUE, FALSE, FALSE)
    \/ connect
    \/ become_ready
    \/ prepare_start
    \/ prepare_connected
    \/ fetch_global_done
    \/ fetch_guild_done
    \/ push_done(1)
    \/ \E id \in RouteIds, g \in InteractionGuilds :
          /\ first_connect
          /\ \E type \in RouteTypes(id), clear_ok, notice_ok \in HTTPOutcomes(id, g),
                inv \in InvokeOutcomes(id, g) :
                process_interaction(id, type, g, clear_ok, notice_ok,
                                    [f \in Funcs |-> "pass"], inv)

SpecRoute == InitRoute /\ [][NextRoute]_vars

-----------------------------------------------------------------------------
(* Routing claims, checked under SpecRoute.                                 *)

\* the descriptor registered under the slash command key (name, guild_id)
SlashOf(name, guild_id) ==
    DictGet(all_app_commands, AppCommandMetadata(name, guild_id, chat_input))

\* the dispatch of this step invoked descriptor ref
Invoked(ref) == \E n \in 1..Len(ret.log) : ret.log[n].k = "invoke" /\ ret.log[n].cmd = ref

\* C34: once the initial sync is over, a slash event from a guild the command b
\* is declared for, carrying the id that guild's cached snapshot holds for b,
\* invokes b.
C34_EachGuildDispatches ==
    ( /\ ret.op = "dispatch"
      /\ ret.type = chat_input
      /\ ret.id = <<ret.guild_id, "b", chat_input>>
      /\ ret.known
      /\ ~sync_queued /\ tasks[1].pc = "done"
      /\ SlashOf("b", ret.guild_id) # <<>> )
    => Invoked(SlashOf("b", ret.guild_id)[1])

\* such an event from the guild whose id was back-filled did invoke b
C34_Reached ==
    /\ ret.op = "dispatch"
    /\ ret.id = <<ret.guild_id, "b", chat_input>>
    /\ SlashOf("b", ret.guild_id) # <<>>
    /\ Invoked(SlashOf("b", ret.guild_id)[1])

-----------------------------------------------------------------------------
(* Registrations at runtime: slash commands are registered and delayed      *)
(* syncs scheduled at any time, and it is recorded which commands           *)
(* registered after ready still wait for a pass to read them.               *)

InitRuntime ==
    /\ InitCommon
    /\ watch = "runtime"
    /\ command_sync = DefaultFlags
    /\ test_guilds = [is_none |-> TRUE, ids |-> <<>>]
    /\ remote = [s \in Scopes |-> IF s = "7" THEN <<RemoteA2("7")>> ELSE <<>>]

NextRuntime ==
    \/ \E n \in Names, g \in CtxGuildIdChoices : add_slash_command(n, g, TRUE)
    \/ connect
    \/ become_ready
    \/ prepare_start
    \/ prepare_connected
    \/ fetch_global_done
    \/ fetch_guild_done
    \/ schedule_delayed_command_sync
    \/ \E i \in 1..Len(tasks) : delayed_start(i)
    \/ \E i \in 1..Len(tasks) : delayed_wake(i)
    \/ \E i \in 1..Len(tasks) : push_done(i)

SpecRuntime == InitRuntime /\ [][NextRuntime]_vars

-----------------------------------------------------------------------------
(* Registrations at runtime, checked under SpecRuntime.                     *)

\* every task has returned and no sync is in progress: nothing will run unless
\* something is scheduled again
Quiescent ==
    /\ \A i \in 1..Len(tasks) : tasks[i].pc = "done"
    /\ ~sync_queued

\* C35: once every scheduled task has returned, no command that was registered
\* after ready and had a delayed sync scheduled for it still waits for a pass to
\* read it.
C35_NoLostRegistration == Quiescent => hist.asked = {}

-----------------------------------------------------------------------------
(* Autocompletion: slash, user and message commands are registered and      *)
(* removed, and autocomplete events arrive from guilds and from outside     *)
(* any guild.                                                               *)

\* guild_ids the slash commands are declared with
AutoGuildIdChoices == {<<>>, <<"7">>, <<"8", "7">>}

InitAuto ==
    /\ InitCommon
    /\ watch = "dispatch"
    /\ command_sync = DefaultFlags
    /\ test_guilds = [is_none |-> TRUE, ids |-> <<>>]
    /\ remote = [s \in Scopes |-> <<>>]

NextAuto ==
    \/ \E n \in Names, g \in AutoGuildIdChoices : add_slash_command(n, g, TRUE)
    \/ \E g \in CtxGuildIdChoices : add_user_command("a", g, TRUE)
    \/ \E n \in Names, s \in Scopes : remove_slash_command(n, s)
    \/ \E n \in Names, s \in Scopes : process_app_command_autocompletion(n, s)

SpecAuto == InitAuto /\ [][NextAuto]_vars

-----------------------------------------------------------------------------
(* Autocompletion claims, checked under SpecAuto.                           *)

\* a registered slash command named name applies in guild_id: it is global, or
\* it declares that guild
Applies(name, guild_id) ==
    \E i \in 1..Len(all_app_commands) :
        LET e == all_app_commands[i]
        IN /\ e.meta.name = name
           /\ e.meta.type = chat_input
           /\ \/ cmds[e.cmd].guild_ids = <<>>
              \/ guild_id # None /\ Occurs(cmds[e.cmd].guild_ids, guild_id)

\* C36: an autocomplete event reaches the autocompleter of the slash command it
\* names exactly when a registered slash command of that name applies in the
\* event's guild, and never raises.
C36_AutocompleteRouted ==
    ret.op = "autocomplete" =>
        /\ ret.called <=> Applies(ret.name, ret.guild_id)
        /\ ret.exc = None

C36_GlobalInGuildReached ==
    /\ ret.op = "autocomplete"
    /\ ret.guild_id # None
    /\ SlashOf(ret.name, None) # <<>>

-----------------------------------------------------------------------------
(* The corrective clear, checked under SpecDispatch.                        *)

\* C37: the corrective clear of a guild is issued only while sync is enabled
\* and no sync is in progress, and only for an event whose id is in neither the
\* cached global snapshot nor the cached snapshot of its guild.
C37_ClearOnlyWhenDue ==
    (Dispatched /\ Did("bulk_overwrite_guild_commands")) =>
        /\ command_sync.sync_commands
        /\ ~sync_queued
        /\ ~ret.known
        /\ ret.id \notin Ids(global_application_commands)
        /\ Logged("bulk_overwrite_guild_commands", "HTTPException") =>
              ret.id \notin Ids(GuildCacheGet(guild_application_commands, ret.guild_id))

\* after the initial sync cached the global command, an event with an id of no
\* snapshot gets its guild cleared
C37_Witness ==
    /\ Dispatched
    /\ Did("bulk_overwrite_guild_commands")
    /\ global_application_commands # <<>>
    /\ tasks[1].pc = "done"

\* an event with an id of no snapshot arrives during the sync: nothing is cleared
C37_WitnessInProgress ==
    /\ Dispatched
    /\ sync_queued /\ ~ret.known
    /\ ret.log = <<>>

\* the same while sync is disabled
C37_WitnessDisabled ==
    /\ Dispatched
    /\ ~command_sync.sync_commands /\ ~ret.known
    /\ ret.log = <<>>

\* an event whose id the cached global snapshot holds, after the sync
C37_WitnessCached ==
    /\ Dispatched
    /\ command_sync.sync_commands /\ ~sync_queued
    /\ ret.id \in Ids(global_application_commands)
    /\ ~Did("bulk_overwrite_guild_commands")

-----------------------------------------------------------------------------
(* Matching by id, checked under SpecRoute.                                 *)

\* the descriptors the registry refers to
Registered == {all_app_commands[i].cmd : i \in 1..Len(all_app_commands)}

\* C38: a dispatch invokes a registered command only if the id back-filled into
\* it is the id of the event, so never one whose id is unassigned; an event
\* whose id is the id of no registered command, or whose type is none of slash,
\* user and message, gets no pre-invocation event, no check evaluation and no
\* invocation.
C38_InvokedByIdOnly ==
    Dispatched =>
        /\ \A ref \in Registered :
              /\ Invoked(ref) => cmds[ref].id = ret.id
              /\ cmds[ref].id = <<>> => ~Invoked(ref)
        /\ \A n \in 1..Len(ret.log) :
              ret.log[n].k = "invoke" => ret.log[n].cmd \in Registered
        /\ ((\A ref \in Registered : cmds[ref].id # ret.id) \/ ret.type \notin Types) =>
              ~Did("event") /\ ~Did("check") /\ ~Did("invoke")

\* the global command a, its id back-filled, is invoked after its check, while
\* another registered command holds a different id
C38_Witness ==
    /\ Dispatched
    /\ ret.id = <<None, "a", chat_input>>
    /\ \E ref \in Registered : Invoked(ref) /\ cmds[ref].id = ret.id
    /\ \E ref \in Registered : cmds[ref].id # ret.id
    /\ Did("event") /\ Did("check")

\* an event of an unknown type that carries the id of a registered command
C38_WitnessOtherType ==
    /\ Dispatched
    /\ ret.type \notin Types
    /\ \E ref \in Registered : cmds[ref].id = ret.id
    /\ ret.log = <<>>

\* an event arrives while a registered command has no id yet
C38_WitnessUnassigned ==
    /\ Dispatched
    /\ \E ref \in Registered : cmds[ref].id = <<>>
    /\ ret.log = <<>>

-----------------------------------------------------------------------------
(* Transport failures of the corrective branch, checked under SpecDispatch. *)

\* C39: when the corrective clear fails with an HTTP error the notice is sent
\* all the same, after it; an HTTP error of the notice is swallowed; either
\* way nothing is raised and nothing is notified, checked or invoked.
C39_FailuresSwallowed ==
    (Dispatched /\ (Logged("bulk_overwrite_guild_commands", "HTTPException")
                      \/ Logged("send_message", "HTTPException"))) =>
        /\ Len(ret.log) = 2
        /\ ret.log[1].k = "bulk_overwrite_guild_commands"
        /\ ret.log[2].k = "send_message"
        /\ ret.exc = None
        /\ ~Did("event") /\ ~Did("check") /\ ~Did("invoke")

\* the clear of guild 7 fails and the platform keeps the guild's commands; the
\* notice is sent
C39_Witness ==
    /\ Dispatched
    /\ Logged("bulk_overwrite_guild_commands", "HTTPException")
    /\ Logged("send_message", "ok")
    /\ ret.guild_id = "7" /\ remote["7"] # <<>>

\* the clear succeeds and the notice fails
C39_WitnessNoticeFails ==
    /\ Dispatched
    /\ Logged("bulk_overwrite_guild_commands", "ok")
    /\ Logged("send_message", "HTTPException")

\* both fail
C39_WitnessBothFail ==
    /\ Dispatched
    /\ Logged("bulk_overwrite_guild_commands", "HTTPException")
    /\ Logged("send_message", "HTTPException")

=============================================================================
